---- MODULE Spec2Model ----
(***************************************************************************)
(* Governance core of the repository analyzer: the evidence verification   *)
(* policy (core/verify_policy.py), the evidence constructors               *)
(* (core/evidence.py), the completeness rubric (analyzer.py) and the       *)
(* EvidencePack assembler (core/adapter.py).                               *)
(*                                                                         *)
(* Representation                                                          *)
(*  - A path is a sequence of tokens.  "/" and "\\" are the separator      *)
(*    tokens; every other token is a piece of a name.  Directory names are *)
(*    one token; a file name is tokenised canonically as                   *)
(*    <<stem, extension>>, with a leading "REPORT_" token when the name    *)
(*    starts with REPORT_.  The empty sequence is the empty string.        *)
(*  - A content hash (12 hex digits) is a natural number; 0 stands for the *)
(*    empty string / a missing key.  sorted() on equal-length hex strings  *)
(*    is the numeric order.                                                *)
(*  - Python's None / a missing key of a tri-state field is "None"; the    *)
(*    booleans True / False are "True" / "False"; "1" is a truthy value    *)
(*    that is not the object True.                                         *)
(*  - Ratios are kept exact as <<numerator, denominator>> pairs and        *)
(*    rounded values are integers in units of 1/10000.                     *)
(***************************************************************************)
EXTENDS Integers, Sequences, FiniteSets, TLC

VARIABLES
    claims,          \* the claims document's "claims" list
    howto,           \* the how-to document
    file_index,      \* the indexed files (relative paths)
    known_unknowns,  \* the known-unknown entries handed to the assembler
    skipped_files,   \* Analyzer._skipped_count
    verdict,         \* results of the verification policy on claims
    pack,            \* the EvidencePack built by build_evidence_pack, or loaded from disk
    pc,              \* position in the pipeline
    disk,            \* the files of the output directories: file name -> content
    mode,            \* the render mode (Analyzer.render_mode, --mode)
    pack_b,          \* the second pack of the diff command
    report,          \* the report rendered by render_report
    diff,            \* the result of diff_packs
    errors           \* the result of pack validation

vars == <<claims, howto, file_index, known_unknowns, skipped_files, verdict, pack, pc,
          disk, mode, pack_b, report, diff, errors>>

(***************************************************************************)
(* Bounds of the model.                                                    *)
(***************************************************************************)
MaxEvidence == 2      \* anchors per claim in the policy specification
MaxClaims == 2        \* claims per claims document
MaxUnknowns == 2      \* entries of a known-unknowns list
MaxHowtoUnknowns == 5 \* entries of howto["unknowns"]
MaxFiles == 2         \* files in the index
MaxSkipped == 1       \* files skipped by the indexer
MaxCatalog == 7       \* claims of a pack handed to the renderer
MaxDiffClaims == 2    \* claims of a pack handed to the diff command

(***************************************************************************)
(* Generic helpers.                                                        *)
(***************************************************************************)
SeqsUpTo(S, n) == UNION {[1..k -> S] : k \in 0..n}

Min(a, b) == IF a <= b THEN a ELSE b

Max(a, b) == IF a >= b THEN a ELSE b

\* s[from..] ; the Python slice s[from-1:]
Suffix(s, from) == [i \in 1..(Len(s) - from + 1) |-> s[i + from - 1]]

\* s.startswith(p) on token sequences
StartsWith(s, p) == Len(s) >= Len(p) /\ \A i \in 1..Len(p) : s[i] = p[i]

\* p in s (contiguous sub-sequence)
Contains(s, p) == \E k \in 0..(Len(s) - Len(p)) : \A i \in 1..Len(p) : s[k + i] = p[i]

\* the ascending list of a finite set of naturals: sorted(set)
RECURSIVE SortedSeq(_)
SortedSeq(S) ==
    IF S = {} THEN <<>>
    ELSE LET m == CHOOSE x \in S : \A y \in S : x <= y
         IN <<m>> \o SortedSeq(S \ {m})

(***************************************************************************)
(* core/verify_policy.py                                                   *)
(***************************************************************************)
VERIFICATION_TIER_HASH == "EVIDENCE_VERIFIED_HASH"

VERIFICATION_TIER_EXISTENCE == "EVIDENCE_VERIFIED_EXISTENCE"

GENERATED_ARTIFACT_PATTERNS ==
    { <<"evidence_pack.v1", ".json">>,
      <<"claims", ".json">>,
      <<"target_howto", ".json">>,
      <<"coverage", ".json">>,
      <<"replit_profile", ".json">>,
      <<"index", ".json">>,
      <<"DOSSIER", ".md">>,
      <<"REPORT_", "ENGINEER", ".md">>,
      <<"REPORT_", "AUDITOR", ".md">>,
      <<"REPORT_", "EXECUTIVE", ".md">>,
      <<"diff", ".json">>,
      <<"DIFF_REPORT", ".md">> }

GENERATED_DIR_MARKERS == { <<"packs", "/">>, <<"out", "/">> }

\* index of the last "/" token of a path, 0 when there is none
LastSlash(path) ==
    LET idx == {i \in DOMAIN path : path[i] = "/"}
    IN IF idx = {} THEN 0 ELSE CHOOSE i \in idx : \A j \in idx : j <= i

\* os.path.basename (POSIX: only "/" separates)
basename(path) == Suffix(path, LastSlash(path) + 1)

\* path.replace("\\", "/")
normalize(path) == [i \in DOMAIN path |-> IF path[i] = "\\" THEN "/" ELSE path[i]]

\* the test of line 63: normalized.startswith(marker) or f"/{marker}" in normalized
under_marker(normalized, marker) ==
    StartsWith(normalized, marker) \/ Contains(normalized, <<"/">> \o marker)

is_generated_artifact(path) ==
    IF path = <<>> THEN FALSE
    ELSE IF basename(path) \in GENERATED_ARTIFACT_PATTERNS THEN TRUE
    ELSE IF /\ Len(basename(path)) >= 2
            /\ basename(path)[1] = "REPORT_"
            /\ basename(path)[Len(basename(path))] = ".md" THEN TRUE
    ELSE \E marker \in GENERATED_DIR_MARKERS :
            /\ under_marker(normalize(path), marker)
            /\ basename(normalize(path)) \in GENERATED_ARTIFACT_PATTERNS

\* evidence_tier without the anti-circularity test of lines 75-76
evidence_tier_no_circular_check(ev) ==
    IF ev.kind = "<str>" THEN ""
    ELSE IF ev.snippet_hash # 0 /\ ev.snippet_hash_verified = "True" /\ ev.path # <<>>
         THEN VERIFICATION_TIER_HASH
    ELSE IF ev.kind = "file_exists" /\ ev.verified = "True"
         THEN VERIFICATION_TIER_EXISTENCE
    ELSE ""

\* evidence_tier accepting any truthy snippet_hash_verified and skipping the path test
evidence_tier_truthy(ev) ==
    IF ev.kind = "<str>" THEN ""
    ELSE IF is_generated_artifact(ev.path) THEN ""
    ELSE IF ev.snippet_hash # 0 /\ ev.snippet_hash_verified \in {"True", "1"}
         THEN VERIFICATION_TIER_HASH
    ELSE IF ev.kind = "file_exists" /\ ev.verified = "True"
         THEN VERIFICATION_TIER_EXISTENCE
    ELSE ""

evidence_tier(ev) ==
    IF ev.kind = "<str>" THEN ""
    ELSE IF is_generated_artifact(ev.path) THEN ""
    ELSE IF ev.snippet_hash # 0 /\ ev.snippet_hash_verified = "True" /\ ev.path # <<>>
         THEN VERIFICATION_TIER_HASH
    ELSE IF ev.kind = "file_exists" /\ ev.verified = "True"
         THEN IF ~is_generated_artifact(ev.path) THEN VERIFICATION_TIER_EXISTENCE ELSE ""
    ELSE ""

\* is_evidence_verified_v1 accepting every tier
is_evidence_verified_any_tier(ev) == evidence_tier(ev) # ""

is_evidence_verified_v1(ev) == evidence_tier(ev) = VERIFICATION_TIER_HASH

is_verified_claim(claim) ==
    \E i \in DOMAIN claim.evidence : is_evidence_verified_v1(claim.evidence[i])

get_verified_evidence(claim) == SelectSeq(claim.evidence, is_evidence_verified_v1)

(***************************************************************************)
(* The analysed repository (the files below Analyzer.repo_dir).  A line is *)
(* a sequence of tokens; " " is a whitespace token.                        *)
(***************************************************************************)
PathIndexTs == <<"server", "/", "index", ".ts">>

PathPackageJson == <<"package", ".json">>

PathPackageLock == <<"package-lock", ".json">>

PathOutServerPy == <<"out", "/", "17", "/", "server", ".py">>

PathPacksNotes == <<"repo", "/", "packs", "/", "notes", ".txt">>

PathClaimsJson == <<"claims", ".json">>

\* the regular text files of the repository and their lines
RepoFiles == {PathIndexTs, PathPackageJson, PathOutServerPy, PathPacksNotes, PathClaimsJson}

FileLines(path) ==
    CASE path = PathIndexTs -> << <<" ", "import", " ", "express">>, <<"app", ".", "listen", " ">> >>
      [] path = PathPackageJson -> << <<" ", " ", "name">> >>
      [] path = PathOutServerPy -> << <<"import", " ", "os">> >>
      [] path = PathPacksNotes -> << <<"notes">> >>
      [] path = PathClaimsJson -> << <<"claims">> >>
      [] OTHER -> <<>>

\* every token of the model, for the digest below
Alphabet ==
    << "/", "\\", " ", ".", "\n", "server", "index", ".ts", "package", "package-lock", ".json",
       "out", "17", ".py", "repo", "packs", "notes", ".txt", "claims", "import", "express",
       "app", "listen", "name", "os", "DOSSIER", ".md", "REPORT_", "CUSTOM", "evidence_pack.v1",
       "outer", "docs", "README" >>

TokenCode(t) == CHOOSE i \in DOMAIN Alphabet : Alphabet[i] = t

\* str.strip() of one line
RECURSIVE lstrip(_)
lstrip(line) == IF line # <<>> /\ Head(line) = " " THEN lstrip(Tail(line)) ELSE line

RECURSIVE rstrip(_)
rstrip(line) ==
    IF line # <<>> /\ line[Len(line)] = " " THEN rstrip(SubSeq(line, 1, Len(line) - 1)) ELSE line

strip(line) == rstrip(lstrip(line))

\* "\n".join(lines)
RECURSIVE join_lines(_)
join_lines(lines) ==
    IF lines = <<>> THEN <<>>
    ELSE IF Len(lines) = 1 THEN lines[1]
    ELSE lines[1] \o <<"\n">> \o join_lines(Tail(lines))

\* hashlib.sha256(text).hexdigest()[:12] : a digest of the token string,
\* never the empty string (0)
RECURSIVE Digest(_, _)
Digest(text, h) ==
    IF text = <<>> THEN h ELSE Digest(Tail(text), (h * 131 + TokenCode(Head(text))) % 1000003)

Sha12(text) == 1 + Digest(text, 7)

\* Analyzer._safe_resolve_path : the path names a regular text file inside the repository
safe_resolve_path(path) == path \in RepoFiles

\* Analyzer._read_lines_from_repo ; <<FALSE, <<>>>> is None
read_lines_from_repo(path, line_start, line_end) ==
    LET le == IF line_end < line_start THEN line_start ELSE line_end
        lines == FileLines(path)
    IN IF ~safe_resolve_path(path) THEN <<FALSE, <<>>>>
       ELSE IF line_start < 1 \/ line_start > Len(lines) THEN <<FALSE, <<>>>>
       ELSE LET clamped_end == Min(le, Len(lines))
                selected == SubSeq(lines, line_start, clamped_end)
            IN <<TRUE, join_lines([i \in DOMAIN selected |-> strip(selected[i])])>>

\* Analyzer._verify_single_evidence
verify_single_evidence(ev) ==
    LET line_end == IF ev.line_end = 0 THEN ev.line_start ELSE ev.line_end
        snippet == read_lines_from_repo(ev.path, ev.line_start, line_end)
    IN IF ev.path = <<>> \/ ev.line_start <= 0 \/ ev.snippet_hash = 0 THEN FALSE
       ELSE IF ~snippet[1] THEN FALSE
       ELSE Sha12(snippet[2]) = ev.snippet_hash

(***************************************************************************)
(* core/evidence.py                                                        *)
(***************************************************************************)
\* make_evidence ; the display string is f"{path}:{line_start}[-{line_end}]"
make_evidence(path, line_start, line_end, snippet) ==
    [kind |-> "None", path |-> path, line_start |-> line_start, line_end |-> line_end,
     snippet_hash |-> Sha12(snippet), snippet_hash_verified |-> "None", verified |-> "None"]

make_file_exists_evidence(path) ==
    [kind |-> "file_exists", path |-> path, line_start |-> 0, line_end |-> 0,
     snippet_hash |-> Sha12(path), snippet_hash_verified |-> "None", verified |-> "None"]

\* the existence check of _build_deterministic_claims._add on a file_exists anchor
add_file_exists_check(ev) ==
    [ev EXCEPT !.verified = IF ev.path \in RepoFiles THEN "True" ELSE "False"]

\* an anchor as the tests' _make_ev builds it
make_ev(path, verified, snippet_hash) ==
    [kind |-> "None", path |-> path, line_start |-> 1, line_end |-> 1,
     snippet_hash |-> snippet_hash, snippet_hash_verified |-> verified, verified |-> "None"]

\* an evidence entry that is not a dict (a raw "path:line" string)
StrEvidence ==
    [kind |-> "<str>", path |-> <<>>, line_start |-> 0, line_end |-> 0,
     snippet_hash |-> 0, snippet_hash_verified |-> "None", verified |-> "None"]

(***************************************************************************)
(* Re-validation of a claims document (analyzer.py).  A claim is           *)
(* [id, statement, section, evidence, confidence, status]; a string anchor *)
(* "path:line_start[-line_end]" is the record of kind "<str>" holding the  *)
(* three parts, line_end = 0 when the string has no "-end" part.  <<>> is  *)
(* None and <<ev>> the anchor ev.                                          *)
(***************************************************************************)
\* Analyzer._parse_evidence_string
parse_evidence_string(ev_str) ==
    IF ev_str.kind # "<str>" THEN <<ev_str>>
    ELSE IF ev_str.path = <<>> THEN <<>>
    ELSE LET MAX_SNIPPET_LINES == 50
             line_start == ev_str.line_start
             given_end == IF ev_str.line_end # 0 THEN ev_str.line_end ELSE line_start
             line_end == IF given_end - line_start > MAX_SNIPPET_LINES
                         THEN line_start + MAX_SNIPPET_LINES ELSE given_end
             snippet == read_lines_from_repo(ev_str.path, line_start, line_end)
         IN IF ~snippet[1] \/ line_start < 1 \/ line_end < 1 THEN <<>>
            ELSE <<make_evidence(ev_str.path, line_start, line_end, snippet[2])>>

\* Analyzer._verify_claims_evidence (the model path)
verify_claims_evidence(cl) ==
    [i \in DOMAIN cl |->
        LET RECURSIVE verify(_)
            verify(evidences) ==
                IF evidences = <<>> THEN <<>>
                ELSE LET ev == Head(evidences)
                         snippet == read_lines_from_repo(ev.path, ev.line_start, ev.line_start)
                     IN (IF ev.kind = "<str>" THEN parse_evidence_string(ev)
                         ELSE IF ev.path # <<>> /\ ev.line_start > 0 /\ snippet[1]
                         THEN <<[ev EXCEPT !.snippet_hash = Sha12(snippet[2]),
                                           !.snippet_hash_verified = "True"]>>
                         ELSE <<[ev EXCEPT !.snippet_hash_verified = "False"]>>)
                        \o verify(Tail(evidences))
            verified == verify(cl[i].evidence)
            has_valid == \E e \in DOMAIN verified : verified[e].snippet_hash_verified = "True"
            capped == ~has_valid /\ cl[i].confidence > 20
        IN [cl[i] EXCEPT !.evidence = verified,
                         !.confidence = IF capped THEN 20 ELSE @,
                         !.status = IF capped THEN "unverified" ELSE @]]

\* Analyzer._build_deterministic_claims._add (the deterministic path) ; the
\* confidences of the model are hundredths, which round(confidence, 2) keeps
_add(claim_id, section, statement, confidence, evidence_list, status) ==
    LET RECURSIVE check(_)
        check(evidences) ==
            IF evidences = <<>> THEN <<>>
            ELSE LET ev == Head(evidences)
                 IN (IF ev.kind = "<str>" THEN <<>>
                     ELSE IF ev.kind = "file_exists" THEN <<add_file_exists_check(ev)>>
                     ELSE IF ev.snippet_hash # 0
                     THEN <<[ev EXCEPT !.snippet_hash_verified =
                                 IF verify_single_evidence(ev) THEN "True" ELSE "False"]>>
                     ELSE <<>>)
                    \o check(Tail(evidences))
        verified_ev == check(evidence_list)
        failed == \E e \in DOMAIN verified_ev :
                      IF verified_ev[e].kind = "file_exists"
                      THEN verified_ev[e].verified = "False"
                      ELSE verified_ev[e].snippet_hash_verified = "False"
    IN [id |-> claim_id, section |-> section, statement |-> statement,
        confidence |-> IF failed \/ verified_ev = <<>> THEN Min(confidence, 20) ELSE confidence,
        evidence |-> verified_ev,
        status |-> IF failed THEN "unverified"
                   ELSE IF verified_ev = <<>> /\ status = "evidenced" THEN "inferred"
                   ELSE status]

(***************************************************************************)
(* The how-to document.  An item of a how-to section is                    *)
(*   [command, description, name, purpose, shape, evidence]                *)
(* where shape tells what item["evidence"] is: "dict" (one anchor, held as *)
(* evidence[1]), "list" (a list of anchors), "str" (an unparsed string) or *)
(* "None" (no evidence key).  A description of "None" is a missing key;    *)
(* command also stands for the "route" / "schema" key of an inventory      *)
(* entry.                                                                  *)
(***************************************************************************)
\* cmd.strip().lower() on the commands of the model
strip_lower(cmd) ==
    CASE cmd = " Unknown " -> "unknown"
      [] cmd = "  " -> ""
      [] OTHER -> cmd

\* _compute_completeness._is_verified_evidence, on the evidence of an item
is_verified_evidence_item(item) ==
    IF item.shape # "dict" THEN FALSE
    ELSE LET ev == item.evidence[1]
         IN IF ev.kind = "file_exists" THEN ev.path \in RepoFiles
            ELSE IF ev.snippet_hash_verified = "True" THEN TRUE
            ELSE IF ev.snippet_hash # 0 /\ verify_single_evidence(ev) THEN TRUE
            ELSE FALSE

\* _compute_completeness._is_verified_evidence, on one anchor of a list
is_verified_evidence(ev) ==
    IF ev.kind = "<str>" THEN FALSE
    ELSE IF ev.kind = "file_exists" THEN ev.path \in RepoFiles
    ELSE IF ev.snippet_hash_verified = "True" THEN TRUE
    ELSE IF ev.snippet_hash # 0 /\ verify_single_evidence(ev) THEN TRUE
    ELSE FALSE

has_cmd(item) ==
    /\ item.command # "None"
    /\ strip_lower(item.command) # ""
    /\ strip_lower(item.command) \notin {"unknown", "null", "n/a", "none"}

\* _compute_completeness._has_actionable_evidence
has_actionable_evidence(items, require_command) ==
    LET actionable == {i \in DOMAIN items :
                          /\ is_verified_evidence_item(items[i])
                          /\ (require_command => has_cmd(items[i]))}
    IN Len(items) # 0 /\ Cardinality(actionable) > 0

\* _compute_completeness._has_config_evidence
has_config_evidence(items) ==
    \E i \in DOMAIN items :
        /\ is_verified_evidence_item(items[i])
        /\ items[i].name # "" /\ items[i].purpose # "" /\ Len(items[i].purpose) > 5

\* the unknowns penalty of lines 556-560
unknowns_penalty(n) == Min(n * 3, 15)

\* Analyzer._compute_completeness (self.replit_profile is None: not replit mode);
\* usage_examples holds the description of each example
compute_completeness(h) ==
    LET base ==
            (IF has_actionable_evidence(h.run_dev, TRUE) THEN 20 ELSE 0)
          + (IF has_config_evidence(h.config) THEN 15 ELSE 0)
          + (IF \E i \in DOMAIN h.port_evidence : is_verified_evidence(h.port_evidence[i])
             THEN 15 ELSE 0)
          + (IF has_actionable_evidence(h.verification_steps, TRUE) THEN 20 ELSE 0)
          + (IF \E i \in DOMAIN h.usage_examples : Len(h.usage_examples[i]) > 5 THEN 15 ELSE 0)
          + (IF has_actionable_evidence(h.install_steps, TRUE) THEN 15 ELSE 0)
        score == IF Len(h.unknowns) > 0
                 THEN Max(0, base - unknowns_penalty(Len(h.unknowns)))
                 ELSE base
    IN [present |-> TRUE, score |-> score, max |-> 100]

(***************************************************************************)
(* core/adapter.py                                                         *)
(***************************************************************************)
EVIDENCE_PACK_VERSION == "1.0"

\* the projection of lines 110-116
project_claim(claim) ==
    [id |-> claim.id, statement |-> claim.statement, section |-> claim.section,
     evidence |-> get_verified_evidence(claim), confidence |-> claim.confidence]

\* _get_verified_claims keeping every claim that has any evidence
get_verified_claims_unfiltered(cl) ==
    LET kept == SelectSeq(cl, LAMBDA c : c.evidence # <<>>)
    IN [i \in DOMAIN kept |->
           [id |-> kept[i].id, statement |-> kept[i].statement, section |-> kept[i].section,
            evidence |-> kept[i].evidence, confidence |-> kept[i].confidence]]

get_verified_claims(cl) ==
    LET kept == SelectSeq(cl, is_verified_claim)
    IN [i \in DOMAIN kept |-> project_claim(kept[i])]

\* the loop of _group_by_section from claim i on
RECURSIVE group_from(_, _, _)
group_from(verified_claims, i, groups) ==
    IF i > Len(verified_claims) THEN groups
    ELSE LET section == verified_claims[i].section
             g == IF section \in DOMAIN groups THEN groups ELSE groups @@ (section :> <<>>)
         IN group_from(verified_claims, i + 1,
                       [g EXCEPT ![section] = Append(@, verified_claims[i])])

\* _group_by_section overwriting a section's list instead of appending to it
group_by_section_overwrite(verified_claims) ==
    [s \in {verified_claims[i].section : i \in DOMAIN verified_claims} |->
        LET last == CHOOSE i \in DOMAIN verified_claims :
                        /\ verified_claims[i].section = s
                        /\ \A j \in DOMAIN verified_claims :
                               verified_claims[j].section = s => j <= i
        IN <<verified_claims[last]>>]

\* the empty dict is the function with the empty domain
group_by_section(verified_claims) == group_from(verified_claims, 1, <<>>)

\* the test of lines 165, 181, 199, 217 on an item of a how-to section
has_structural_evidence(item) ==
    /\ item.shape = "dict"
    /\ item.evidence[1].snippet_hash # 0
    /\ item.evidence[1].path # <<>>

\* one bucket of _build_verified_structural: the loop over a how-to section
structural_bucket(items, id_prefix, section) ==
    LET kept == SelectSeq(items, has_structural_evidence)
    IN [i \in DOMAIN kept |->
           [id |-> <<id_prefix, i - 1>>,
            statement |-> IF kept[i].description # "None" THEN kept[i].description
                          ELSE IF section = "howto:enforcement_inventory" THEN ""
                          ELSE kept[i].command,
            section |-> section,
            evidence |-> <<kept[i].evidence[1]>>,
            confidence |-> 50,
            source |-> "deterministic_extractor:howto"]]

\* a note is <<prefix, reason>>, the string f"{prefix}: {reason}"
structural_notes(routes, schemas, enforcement) ==
    LET noted == (IF routes = <<>> THEN {"routes"} ELSE {})
                 \cup (IF schemas = <<>> THEN {"schemas"} ELSE {})
                 \cup (IF enforcement = <<>> THEN {"enforcement"} ELSE {})
    IN [b \in noted |->
           CASE b = "routes" ->
                    <<"not_yet_extractable", "route inventory extractor not implemented">>
             [] b = "schemas" ->
                    <<"not_yet_extractable", "schema inventory extractor not implemented">>
             [] b = "enforcement" ->
                    <<"not_yet_extractable", "enforcement inventory extractor not implemented">>]

\* _build_verified_structural ; notes is the "_notes" key, absent when it
\* would be empty (has_notes)
build_verified_structural(verified_claims, h, fi) ==
    LET dependencies == structural_bucket(h.install_steps, "howto_dep", "howto:install_steps")
        routes == structural_bucket(h.route_inventory, "howto_route", "howto:route_inventory")
        schemas == structural_bucket(h.schema_inventory, "howto_schema", "howto:schema_inventory")
        enforcement == structural_bucket(h.enforcement_inventory, "howto_enforce",
                                         "howto:enforcement_inventory")
        notes == structural_notes(routes, schemas, enforcement)
    IN [routes |-> routes, dependencies |-> dependencies, schemas |-> schemas,
        enforcement |-> enforcement,
        has_notes |-> DOMAIN notes # {}, notes |-> notes]

\* round(n/d, 4) in units of 1/10000, ties to even (d > 0).  The float
\* arithmetic of Python is modelled by exact rationals.
Round4(n, d) ==
    LET q == (10000 * n) \div d
        r == (10000 * n) % d
    IN IF 2 * r < d THEN q
       ELSE IF 2 * r > d THEN q + 1
       ELSE IF q % 2 = 0 THEN q ELSE q + 1

\* (x / y) if y > 0 else 0.0 , as an exact ratio
Ratio(x, y) == IF y > 0 THEN <<x, y>> ELSE <<0, 1>>

\* the composite of line 260 taken over two of the three components
rci_score_two_components(cc, uc, hc) ==
    Round4(cc[1] * uc[2] + uc[1] * cc[2], 2 * cc[2] * uc[2])

\* round((claims_coverage + unknowns_coverage + howto_coverage) / 3.0, 4)
rci_score(cc, uc, hc) ==
    Round4(cc[1] * uc[2] * hc[2] + uc[1] * cc[2] * hc[2] + hc[1] * cc[2] * uc[2],
           3 * cc[2] * uc[2] * hc[2])

build_metrics(h, cl, ku, coverage) ==
    LET total_claims == Len(cl)
        verified_count == Len(get_verified_claims(cl))
        claims_coverage == Ratio(verified_count, total_claims)
        total_categories == Len(ku)
        verified_categories == Cardinality({i \in DOMAIN ku : ku[i].status = "VERIFIED"})
        unknowns_coverage == Ratio(verified_categories, total_categories)
        howto_score == IF h.completeness.present THEN h.completeness.score ELSE 0
        howto_max == IF h.completeness.present THEN h.completeness.max ELSE 100
        howto_coverage == Ratio(howto_score, howto_max)
    IN [rci_reporting_completeness |->
            [score |-> rci_score(claims_coverage, unknowns_coverage, howto_coverage),
             label |-> "RCI - Reporting Completeness",
             formula |-> "average(claims_coverage, unknowns_coverage, howto_completeness)",
             components |->
                 [claims_coverage |-> Round4(claims_coverage[1], claims_coverage[2]),
                  unknowns_coverage |-> Round4(unknowns_coverage[1], unknowns_coverage[2]),
                  howto_completeness |-> Round4(howto_coverage[1], howto_coverage[2])],
             interpretation |-> "Composite completeness of PTA reporting. NOT a security or structural visibility score."],
        dci_v1_claim_visibility |->
            [score |-> Round4(claims_coverage[1], claims_coverage[2]),
             label |-> "DCI_v1_claim_visibility",
             formula |-> "verified_claims / total_claims",
             interpretation |-> "Percent of claims with deterministic hash-verified evidence. This is claim-evidence visibility, NOT system surface visibility."],
        dci_v2_structural_visibility |->
            [score |-> "None",
             label |-> "DCI_v2_structural_visibility (not implemented)",
             formula |-> "verified_structural_items / total_structural_surface",
             interpretation |-> "Structural surface visibility (routes/deps/schemas/enforcement). Not yet implemented - requires dedicated structural extractors.",
             status |-> "not_implemented"]]

\* the hashes of the evidence of one how-to item (lines 307-313)
item_hashes(item) ==
    IF item.shape \in {"dict", "list"}
    THEN {item.evidence[i].snippet_hash : i \in DOMAIN item.evidence} \ {0}
    ELSE {}

\* the how-to sections read by _collect_snippet_hashes (line 300)
hash_sections(h) ==
    <<h.install_steps, h.config, h.run_dev, h.run_prod, h.verification_steps, h.common_failures>>

collect_snippet_hashes(cl, h) ==
    LET from_claims ==
            UNION {{cl[i].evidence[j].snippet_hash : j \in DOMAIN cl[i].evidence} : i \in DOMAIN cl}
              \ {0}
        secs == hash_sections(h)
        from_howto ==
            UNION {UNION {item_hashes(secs[k][i]) : i \in DOMAIN secs[k]} : k \in DOMAIN secs}
    IN SortedSeq(from_claims \cup from_howto)

\* the insertion order of the keys of the dict _group_by_section returns
RECURSIVE section_order(_, _, _)
section_order(verified_claims, i, keys) ==
    IF i > Len(verified_claims) THEN keys
    ELSE section_order(verified_claims, i + 1,
             IF \E k \in DOMAIN keys : keys[k] = verified_claims[i].section
             THEN keys ELSE Append(keys, verified_claims[i].section))

\* build_evidence_pack (replit_profile is None).  generated_at, the wall
\* clock, is left out.  The pack has exactly the keys the code sets;
\* verified_keys is the key order of the dict "verified".
build_evidence_pack(h, cl, coverage, fi, ku, run_mode, run_id) ==
    LET verified_claims == get_verified_claims(cl)
    IN [evidence_pack_version |-> EVIDENCE_PACK_VERSION,
        mode |-> run_mode,
        run_id |-> run_id,
        verified |-> group_by_section(verified_claims),
        verified_keys |-> section_order(verified_claims, 1, <<>>),
        verified_structural |-> build_verified_structural(verified_claims, h, fi),
        unknowns |-> ku,
        metrics |-> build_metrics(h, cl, ku, coverage),
        hashes |-> [snippets |-> collect_snippet_hashes(cl, h)],
        summary |->
            [total_files |-> Len(fi),
             total_claims |-> Len(cl),
             verified_claims |-> Len(verified_claims),
             unknown_categories |-> Cardinality({i \in DOMAIN ku : ku[i].status = "UNKNOWN"}),
             verified_categories |-> Cardinality({i \in DOMAIN ku : ku[i].status = "VERIFIED"})]]

(***************************************************************************)
(* core/render.py.  A report is the record of the parts of the text that   *)
(* depend on the pack: the claims listed, the score strings and the        *)
(* disclaimers printed next to the scores.  A percentage string is         *)
(* <<whole, fraction, digits>>: <<88, 24, 2>> is "88.24%"; <<>> is no      *)
(* string.                                                                 *)
(***************************************************************************)
\* the strings of the model in the order of Python's sorted()
StringOrder ==
    << "", "Claim A", "Claim B", "Claim C", "Claim D", "Claim E", "Claim F", "Claim G",
       "Claim H", "Claim I", "Overview", "Security", "System uses X", "Test claim",
       "What the Target System Is", "backup_retention", "ci/gating", "data_residency",
       "deployment/model", "deployment_topology", "encryption_at_rest", "logging_sink",
       "monitoring_alerting", "output/artifacts", "runtime/entrypoint", "runtime_iam",
       "secret_management", "security/posture", "tls_termination" >>

\* sorted(S) for a set of strings
sorted_strings(S) ==
    LET rank(s) == CHOOSE i \in DOMAIN StringOrder : StringOrder[i] = s
        ranks == SortedSeq({rank(s) : s \in S})
    IN [i \in DOMAIN ranks |-> StringOrder[ranks[i]]]

\* _get_verified_sections(pack).items() : the (section, claims) pairs in dict order
verified_items(p) ==
    IF "verified" \in DOMAIN p
    THEN [k \in DOMAIN p.verified_keys |-> <<p.verified_keys[k], p.verified[p.verified_keys[k]]>>]
    ELSE <<>>

\* sorted(verified_sections.items())
sorted_verified_items(p) ==
    IF "verified" \in DOMAIN p
    THEN LET names == sorted_strings(DOMAIN p.verified)
         IN [k \in DOMAIN names |-> <<names[k], p.verified[names[k]]>>]
    ELSE <<>>

\* _render_evidence_anchor ; the model's anchors have no display key
render_evidence_anchor(ev) == <<ev.path, ev.snippet_hash>>

\* the lines printed for one claim (lines 533-537 and 617-621)
render_claim(claim) ==
    LET anchors == SelectSeq(claim.evidence, LAMBDA ev : ev.kind # "<str>")
    IN [statement |-> claim.statement, confidence |-> claim.confidence,
        anchors |-> [j \in DOMAIN anchors |-> render_evidence_anchor(anchors[j])]]

render_section(item) ==
    [section |-> item[1], claims |-> [i \in DOMAIN item[2] |-> render_claim(item[2][i])]]

\* pack.get("metrics", {}).get(name, {}).get(key, default)
metric_get(p, name, key, default) ==
    IF "metrics" \in DOMAIN p /\ name \in DOMAIN p.metrics /\ key \in DOMAIN p.metrics[name]
    THEN p.metrics[name][key]
    ELSE default

\* f"{score:.2%}" and f"{score:.1%}" of a score in units of 1/10000.  With
\* one digit a score ending in 5 is a tie in decimal; the float nearest to
\* the score decides it (tie_up).
format_percent(score, digits, tie_up) ==
    IF digits = 2 THEN <<score \div 100, score % 100, 2>>
    ELSE LET q == score \div 10
             r == score % 10
             rounded == IF r < 5 THEN q
                        ELSE IF r > 5 THEN q + 1
                        ELSE IF tie_up THEN q + 1 ELSE q
         IN <<rounded \div 10, rounded % 10, 1>>

PRIORITY_SECTIONS ==
    <<"runtime/entrypoint", "ci/gating", "deployment/model", "security/posture", "output/artifacts">>

\* the inner loops of lines 243-247 and 253-257: the claims of one section
\* from index i on; dedupe is the test "(section, claim) not in verified_claims"
RECURSIVE take_claims(_, _, _, _, _)
take_claims(section, cs, i, acc, dedupe) ==
    IF i > Len(cs) THEN acc
    ELSE LET add == /\ cs[i].evidence # <<>>
                    /\ dedupe => ~\E k \in DOMAIN acc : acc[k] = <<section, cs[i]>>
             acc2 == IF add THEN Append(acc, <<section, cs[i]>>) ELSE acc
         IN IF Len(acc2) >= 5 THEN acc2 ELSE take_claims(section, cs, i + 1, acc2, dedupe)

\* the outer loops of lines 235-249 and 252-259 over (section, claims) pairs
RECURSIVE take_sections(_, _, _, _)
take_sections(items, k, acc, dedupe) ==
    IF k > Len(items) THEN acc
    ELSE LET acc2 == take_claims(items[k][1], items[k][2], 1, acc, dedupe)
         IN IF Len(acc2) >= 5 THEN acc2 ELSE take_sections(items, k + 1, acc2, dedupe)

\* the selection of render_onepager_plain without the fallback of lines 251-259
plain_verified_claims_priority_only(p) ==
    LET verified_sections == IF "verified" \in DOMAIN p THEN p.verified ELSE <<>>
        priority_items ==
            [k \in DOMAIN PRIORITY_SECTIONS |->
                <<PRIORITY_SECTIONS[k],
                  IF PRIORITY_SECTIONS[k] \in DOMAIN verified_sections
                  THEN verified_sections[PRIORITY_SECTIONS[k]] ELSE <<>> >>]
    IN take_sections(priority_items, 1, <<>>, FALSE)

\* the selection of render_onepager_plain, lines 233-259: (section, claim) pairs
plain_verified_claims(p) ==
    LET verified_sections == IF "verified" \in DOMAIN p THEN p.verified ELSE <<>>
        priority_items ==
            [k \in DOMAIN PRIORITY_SECTIONS |->
                <<PRIORITY_SECTIONS[k],
                  IF PRIORITY_SECTIONS[k] \in DOMAIN verified_sections
                  THEN verified_sections[PRIORITY_SECTIONS[k]] ELSE <<>> >>]
        from_priority == take_sections(priority_items, 1, <<>>, FALSE)
    IN IF Len(from_priority) < 5
       THEN take_sections(verified_items(p), 1, from_priority, TRUE)
       ELSE from_priority

\* render_onepager_plain: the "What it found (verified)" list, lines 260-265,
\* and the "What's missing (unknowns)" list, lines 273-304: an entry of
\* unknowns is the line f"- {cat}: {desc} (To close: {evidence_needed})".
\* A text is a pair: <<registry, category>> for a text of core/unknowns.py,
\* <<"literal", text>> for a text of this function; a key that is present
\* holds a non-empty text.
render_onepager_plain(p) ==
    LET selected == SubSeq(plain_verified_claims(p), 1, Min(5, Len(plain_verified_claims(p))))
        priority_unknowns == <<"deployment/docs", "ops/runbook", "dr/disaster_recovery",
                               "api/map", "frontend/prod_build">>
        is_unknown(u) == u.status = "UNKNOWN"
        RECURSIVE by_priority(_, _)
        by_priority(cats, acc) ==
            IF cats = <<>> \/ Len(acc) >= 5 THEN acc
            ELSE LET hits == {i \in DOMAIN p.unknowns : /\ p.unknowns[i].category = Head(cats)
                                                        /\ is_unknown(p.unknowns[i])}
                 IN by_priority(Tail(cats),
                        IF hits = {} THEN acc
                        ELSE Append(acc, p.unknowns[CHOOSE i \in hits : \A j \in hits : i <= j]))
        RECURSIVE fill(_, _)
        fill(us, acc) ==
            IF us = <<>> \/ Len(acc) >= 5 THEN acc
            ELSE fill(Tail(us),
                      IF is_unknown(Head(us)) /\ \A k \in DOMAIN acc : acc[k] # Head(us)
                      THEN Append(acc, Head(us)) ELSE acc)
        selected_unknowns == fill(p.unknowns, by_priority(priority_unknowns, <<>>))
    IN [mode |-> "plain",
        verified |-> <<>>,
        listed |-> [i \in DOMAIN selected |->
                       IF selected[i][2].statement # "" THEN selected[i][2].statement
                       ELSE selected[i][1]],
        unknowns |-> [k \in DOMAIN selected_unknowns |->
                         LET u == selected_unknowns[k]
                         IN [cat |-> u.category,
                             desc |-> IF "description" \in DOMAIN u THEN u.description
                                      ELSE <<"literal", "No description.">>,
                             evidence_needed |->
                                 IF "evidence_needed" \in DOMAIN u THEN u.evidence_needed
                                 ELSE IF "closure_hint" \in DOMAIN u THEN u.closure_hint
                                 ELSE <<"literal", "Evidence required to close this unknown.">>]],
        scores |-> [dci |-> <<>>, rci |-> <<>>],
        disclaimers |-> [dci |-> "", dci_v2 |-> "", rci |-> ""]]

\* _render_engineer: the score lines 454-467, the fixed explanations of
\* lines 460-461, 475-476 and 484-486, and the sections of lines 524-538
render_engineer(p) ==
    [mode |-> "engineer",
     verified |-> [k \in DOMAIN sorted_verified_items(p) |->
                      render_section(sorted_verified_items(p)[k])],
     listed |-> <<>>,
     scores |-> [dci |-> format_percent(metric_get(p, "dci_v1_claim_visibility", "score", 0), 2, FALSE),
                 rci |-> format_percent(metric_get(p, "rci_reporting_completeness", "score", 0), 2, FALSE)],
     disclaimers |->
         [dci |-> "This measures claim-to-evidence visibility only. It does not measure code quality, security posture, or structural surface coverage.",
          dci_v2 |-> "Routes, dependencies, schemas, and enforcement extractors are not active. Structural surface visibility is intentionally reported as null rather than estimated. This prevents silent overstatement of governance posture.",
          rci |-> "RCI is a documentation completeness metric. It is not a security score and does not imply structural sufficiency."]]

\* _render_auditor using the engineer view's fixed explanations
render_auditor_fixed_text(p) ==
    [render_engineer(p) EXCEPT
        !.mode = "auditor",
        !.verified = SelectSeq(render_engineer(p).verified, LAMBDA s : s.claims # <<>>)]

\* _render_auditor: sections without claims are skipped (lines 612-613); the
\* score lines 629 and 637 carry the interpretation of the metric
render_auditor(p) ==
    LET items == SelectSeq(sorted_verified_items(p), LAMBDA item : item[2] # <<>>)
    IN [mode |-> "auditor",
        verified |-> [k \in DOMAIN items |-> render_section(items[k])],
        listed |-> <<>>,
        scores |-> [dci |-> format_percent(metric_get(p, "dci_v1_claim_visibility", "score", 0), 2, FALSE),
                    rci |-> format_percent(metric_get(p, "rci_reporting_completeness", "score", 0), 2, FALSE)],
        disclaimers |->
            [dci |-> metric_get(p, "dci_v1_claim_visibility", "interpretation", ""),
             dci_v2 |-> metric_get(p, "dci_v2_structural_visibility", "interpretation", ""),
             rci |-> metric_get(p, "rci_reporting_completeness", "interpretation", "")]]

\* _render_executive: the score cells of lines 664 and 666 (one digit), the
\* interpretations of lines 673-675; claims are only counted (line 694)
render_executive(p, tie_up) ==
    [mode |-> "executive",
     verified |-> <<>>,
     listed |-> <<>>,
     scores |-> [dci |-> format_percent(metric_get(p, "dci_v1_claim_visibility", "score", 0), 1, tie_up),
                 rci |-> format_percent(metric_get(p, "rci_reporting_completeness", "score", 0), 1, tie_up)],
     disclaimers |->
         [dci |-> metric_get(p, "dci_v1_claim_visibility", "interpretation", ""),
          dci_v2 |-> metric_get(p, "dci_v2_structural_visibility", "interpretation", ""),
          rci |-> metric_get(p, "rci_reporting_completeness", "interpretation", "")]]

render_report(p, render_mode, tie_up) ==
    CASE render_mode = "engineer" -> render_engineer(p)
      [] render_mode = "auditor" -> render_auditor(p)
      [] render_mode = "executive" -> render_executive(p, tie_up)
      [] render_mode = "plain" -> render_onepager_plain(p)
      [] OTHER -> render_engineer(p)

\* the score of the executive view ends in 5: its rounding depends on the float
is_tie(p) ==
    \/ metric_get(p, "dci_v1_claim_visibility", "score", 0) % 10 = 5
    \/ metric_get(p, "rci_reporting_completeness", "score", 0) % 10 = 5

\* the file save_evidence_pack writes below output_dir
PACK_FILE == "evidence_pack.v1.json"

\* assert_pack_written: TRUE when it returns, FALSE when it raises RuntimeError
assert_pack_written(d, pack_path) == pack_path # "None" /\ pack_path \in DOMAIN d

\* f"REPORT_{mode.upper()}.md"
report_filename(render_mode) ==
    CASE render_mode = "engineer" -> "REPORT_ENGINEER.md"
      [] render_mode = "auditor" -> "REPORT_AUDITOR.md"
      [] render_mode = "executive" -> "REPORT_EXECUTIVE.md"
      [] render_mode = "plain" -> "REPORT_PLAIN.md"
      [] OTHER -> "REPORT_VERBOSE.md"

\* writing a file: the disk with name bound to content
write_file(d, name, content) == [f \in DOMAIN d \cup {name} |-> IF f = name THEN content ELSE d[f]]

\* save_report
save_report(d, content, render_mode) == write_file(d, report_filename(render_mode), content)

(***************************************************************************)
(* pta_diff.py.  A dict keyed by strings is a function; the lists built    *)
(* from sorted(...) follow StringOrder.  Confidences are in units of 1/100 *)
(* and deltas, like scores, in units of 1/10000.                           *)
(***************************************************************************)
\* _extract_hashes_from_item
extract_hashes_from_item(item) ==
    {item.evidence[j].snippet_hash :
        j \in {i \in DOMAIN item.evidence : item.evidence[i].kind # "<str>"}} \ {0}

\* {item.get("statement", ...): item for item in items} : a later item
\* replaces an earlier one with the same statement
key_by_statement(items) ==
    [k \in {items[i].statement : i \in DOMAIN items} |->
        items[CHOOSE i \in DOMAIN items :
                  /\ items[i].statement = k
                  /\ \A j \in DOMAIN items : items[j].statement = k => j <= i]]

\* _diff_verified_items reporting a statement as changed when the hash lists
\* (not the hash sets) of the two items differ
diff_verified_items_by_list(items_a, items_b) ==
    LET key_a == key_by_statement(items_a)
        key_b == key_by_statement(items_b)
        only_b == sorted_strings(DOMAIN key_b \ DOMAIN key_a)
        only_a == sorted_strings(DOMAIN key_a \ DOMAIN key_b)
        both == SelectSeq(sorted_strings(DOMAIN key_a \cap DOMAIN key_b),
                          LAMBDA k : key_a[k].evidence # key_b[k].evidence)
    IN [added |-> [i \in DOMAIN only_b |-> key_b[only_b[i]]],
        removed |-> [i \in DOMAIN only_a |-> key_a[only_a[i]]],
        changed |-> [i \in DOMAIN both |->
                        [statement |-> both[i],
                         old_hashes |-> SortedSeq(extract_hashes_from_item(key_a[both[i]])),
                         new_hashes |-> SortedSeq(extract_hashes_from_item(key_b[both[i]])),
                         confidence_delta |->
                             Round4(key_b[both[i]].confidence - key_a[both[i]].confidence, 100)]],
        summary |-> <<Len(only_b), Len(only_a), Len(both)>>]

\* _diff_verified_items ; summary is the string f"+{added} -{removed} ~{changed}"
diff_verified_items(items_a, items_b) ==
    LET key_a == key_by_statement(items_a)
        key_b == key_by_statement(items_b)
        only_b == sorted_strings(DOMAIN key_b \ DOMAIN key_a)
        only_a == sorted_strings(DOMAIN key_a \ DOMAIN key_b)
        both == SelectSeq(sorted_strings(DOMAIN key_a \cap DOMAIN key_b),
                          LAMBDA k : extract_hashes_from_item(key_a[k])
                                         # extract_hashes_from_item(key_b[k]))
    IN [added |-> [i \in DOMAIN only_b |-> key_b[only_b[i]]],
        removed |-> [i \in DOMAIN only_a |-> key_a[only_a[i]]],
        changed |-> [i \in DOMAIN both |->
                        [statement |-> both[i],
                         old_hashes |-> SortedSeq(extract_hashes_from_item(key_a[both[i]])),
                         new_hashes |-> SortedSeq(extract_hashes_from_item(key_b[both[i]])),
                         confidence_delta |->
                             Round4(key_b[both[i]].confidence - key_a[both[i]].confidence, 100)]],
        summary |-> <<Len(only_b), Len(only_a), Len(both)>>]

\* {u.get("category", ""): u for u in unknowns}, then .get("status", "MISSING")
status_by_category(unknowns, cat) ==
    LET idx == {i \in DOMAIN unknowns : unknowns[i].category = cat}
    IN IF idx = {} THEN "MISSING"
       ELSE unknowns[CHOOSE i \in idx : \A j \in idx : j <= i].status

\* _diff_unknowns without the test of line 122: an entry for every category
diff_unknowns_every_category(unknowns_a, unknowns_b) ==
    LET cats == sorted_strings({unknowns_a[i].category : i \in DOMAIN unknowns_a}
                                \cup {unknowns_b[i].category : i \in DOMAIN unknowns_b})
    IN [status_changes |->
            [i \in DOMAIN cats |->
                [category |-> cats[i],
                 old_status |-> status_by_category(unknowns_a, cats[i]),
                 new_status |-> status_by_category(unknowns_b, cats[i])]],
        summary |-> Len(cats)]

\* _diff_unknowns
diff_unknowns(unknowns_a, unknowns_b) ==
    LET cats == sorted_strings({unknowns_a[i].category : i \in DOMAIN unknowns_a}
                                \cup {unknowns_b[i].category : i \in DOMAIN unknowns_b})
        moved == SelectSeq(cats, LAMBDA c : status_by_category(unknowns_a, c)
                                                # status_by_category(unknowns_b, c))
    IN [status_changes |->
            [i \in DOMAIN moved |->
                [category |-> moved[i],
                 old_status |-> status_by_category(unknowns_a, moved[i]),
                 new_status |-> status_by_category(unknowns_b, moved[i])]],
        summary |-> Len(moved)]

\* _diff_hashes counting the hashes of the first pack as unchanged
diff_hashes_unchanged_of_a(hashes_a, hashes_b) ==
    LET set_a == {hashes_a[i] : i \in DOMAIN hashes_a}
        set_b == {hashes_b[i] : i \in DOMAIN hashes_b}
    IN [added |-> SortedSeq(set_b \ set_a),
        removed |-> SortedSeq(set_a \ set_b),
        unchanged |-> Cardinality(set_a)]

\* _diff_hashes
diff_hashes(hashes_a, hashes_b) ==
    LET set_a == {hashes_a[i] : i \in DOMAIN hashes_a}
        set_b == {hashes_b[i] : i \in DOMAIN hashes_b}
    IN [added |-> SortedSeq(set_b \ set_a),
        removed |-> SortedSeq(set_a \ set_b),
        unchanged |-> Cardinality(set_a \cap set_b)]

\* the direction of _diff_dci counting a zero delta as an improvement
dci_direction_ge(delta) ==
    IF delta >= 0 THEN "improved" ELSE IF delta < 0 THEN "declined" ELSE "unchanged"

\* line 162
dci_direction(delta) ==
    IF delta > 0 THEN "improved" ELSE IF delta < 0 THEN "declined" ELSE "unchanged"

\* pack.get("metrics", {}).get("dci", {}) : the key "dci", which the
\* assembler of this build does not write
metrics_dci(p) ==
    IF "metrics" \in DOMAIN p /\ "dci" \in DOMAIN p.metrics THEN p.metrics.dci
    ELSE [score |-> 0, components |-> <<>>]

\* _diff_dci ; a missing score or component counts as 0
diff_dci(dci_a, dci_b) ==
    LET delta == Round4(dci_b.score - dci_a.score, 10000)
        component(d, k) == IF k \in DOMAIN d.components THEN d.components[k] ELSE 0
    IN [old_score |-> dci_a.score,
        new_score |-> dci_b.score,
        delta |-> delta,
        direction |-> dci_direction(delta),
        component_deltas |->
            [k \in DOMAIN dci_a.components \cup DOMAIN dci_b.components |->
                Round4(component(dci_b, k) - component(dci_a, k), 10000)]]

\* pack.get(key, default) for the top-level keys diff_packs reads
pack_get(p, key, default) == IF key \in DOMAIN p THEN p[key] ELSE default

\* diff_packs ; verified_sections is keyed by section
diff_packs(pack_a, pack_b_) ==
    LET verified_a == pack_get(pack_a, "verified", <<>>)
        verified_b == pack_get(pack_b_, "verified", <<>>)
        items(v, s) == IF s \in DOMAIN v THEN v[s] ELSE <<>>
    IN [diff_version |-> "1.0",
        pack_a |-> [run_id |-> pack_get(pack_a, "run_id", "None")],
        pack_b |-> [run_id |-> pack_get(pack_b_, "run_id", "None")],
        verified_sections |->
            [s \in DOMAIN verified_a \cup DOMAIN verified_b |->
                diff_verified_items(items(verified_a, s), items(verified_b, s))],
        unknowns |-> diff_unknowns(pack_get(pack_a, "unknowns", <<>>),
                                   pack_get(pack_b_, "unknowns", <<>>)),
        snippet_hashes |->
            diff_hashes(pack_get(pack_get(pack_a, "hashes", [snippets |-> <<>>]), "snippets", <<>>),
                        pack_get(pack_get(pack_b_, "hashes", [snippets |-> <<>>]), "snippets", <<>>)),
        dci_delta |-> diff_dci(metrics_dci(pack_a), metrics_dci(pack_b_))]

\* render_diff_report: the DCI lines 197-199 and the heading of each section
render_diff_report(d) ==
    [dci |-> <<format_percent(d.dci_delta.old_score, 2, FALSE),
               format_percent(d.dci_delta.new_score, 2, FALSE), d.dci_delta.direction>>,
     sections |-> [k \in DOMAIN sorted_strings(DOMAIN d.verified_sections) |->
                      <<sorted_strings(DOMAIN d.verified_sections)[k],
                        d.verified_sections[sorted_strings(DOMAIN d.verified_sections)[k]].summary>>]]

\* save_diff
save_diff(d, result) ==
    write_file(write_file(d, "diff.json", result), "DIFF_REPORT.md", render_diff_report(result))

(***************************************************************************)
(* Persistence of the pack (core/adapter.py) and the existence tests of    *)
(* the render and diff commands (analyzer_cli.py).                         *)
(***************************************************************************)
\* save_evidence_pack: json.dump of the pack to output_dir / PACK_FILE
save_evidence_pack(d, p) == write_file(d, PACK_FILE, p)

\* Path.exists() reporting every path as present
path_exists_always(d, path) == TRUE

\* Path.exists()
path_exists(d, path) == path \in DOMAIN d

\* open(path) of a missing file raises FileNotFoundError
FileNotFound == [evidence_pack_version |-> "FileNotFoundError"]

\* load_evidence_pack: json.load of the file, whatever its schema version
load_evidence_pack(d, path) == IF path \in DOMAIN d THEN d[path] ELSE FileNotFound

(***************************************************************************)
(* Validation of a pack against the schema contract.  The tests import     *)
(* validate_evidence_pack and REQUIRED_PACK_FIELDS from core/adapter.py,   *)
(* which does not define them; they follow the specification (sections 3   *)
(* and 4.2).  An error is <<rule, field or value>>.  generated_at, the     *)
(* wall clock, is not part of the model's packs.                           *)
(***************************************************************************)
REQUIRED_PACK_FIELDS ==
    <<"evidence_pack_version", "tool_version", "mode", "run_id", "verified",
      "verified_structural", "unknowns", "metrics", "hashes", "summary", "coverage">>

REQUIRED_COVERAGE_FIELDS == <<"analyzed_files", "total_files_seen">>

\* validation stopping at the first violated rule
validate_evidence_pack_first_only(p) ==
    LET missing == SelectSeq(REQUIRED_PACK_FIELDS, LAMBDA f : f \notin DOMAIN p)
    IN IF missing # <<>> THEN << <<"missing required field", missing[1]>> >>
       ELSE IF p.tool_version = "" THEN << <<"empty field", "tool_version">> >>
       ELSE IF p.run_id \in {"", "None"} THEN << <<"empty field", "run_id">> >>
       ELSE IF p.evidence_pack_version # EVIDENCE_PACK_VERSION
            THEN << <<"unsupported schema version", p.evidence_pack_version>> >>
       ELSE LET sub == SelectSeq(REQUIRED_COVERAGE_FIELDS, LAMBDA f : f \notin DOMAIN p.coverage)
            IN IF sub # <<>> THEN << <<"missing coverage field", sub[1]>> >> ELSE <<>>

validate_evidence_pack(p) ==
    LET missing == SelectSeq(REQUIRED_PACK_FIELDS, LAMBDA f : f \notin DOMAIN p)
        sub == IF "coverage" \in DOMAIN p
               THEN SelectSeq(REQUIRED_COVERAGE_FIELDS, LAMBDA f : f \notin DOMAIN p.coverage)
               ELSE <<>>
    IN [i \in DOMAIN missing |-> <<"missing required field", missing[i]>>]
       \o (IF "tool_version" \in DOMAIN p /\ p.tool_version = ""
           THEN << <<"empty field", "tool_version">> >> ELSE <<>>)
       \o (IF "run_id" \in DOMAIN p /\ p.run_id \in {"", "None"}
           THEN << <<"empty field", "run_id">> >> ELSE <<>>)
       \o (IF "evidence_pack_version" \in DOMAIN p
                /\ p.evidence_pack_version # EVIDENCE_PACK_VERSION
           THEN << <<"unsupported schema version", p.evidence_pack_version>> >> ELSE <<>>)
       \o [i \in DOMAIN sub |-> <<"missing coverage field", sub[i]>>]

(***************************************************************************)
(* Inputs.                                                                 *)
(***************************************************************************)
PathDossier == <<"DOSSIER", ".md">>

PathReportCustom == <<"REPORT_", "CUSTOM", ".md">>

PathOutPack == <<"out", "/", "17", "/", "evidence_pack.v1", ".json">>

PathOutClaimsBackslash == <<"out", "\\", "17", "\\", "claims", ".json">>

PathPacksIndexTs == <<"packs", "/", "index", ".ts">>

PathOuterIndexTs == <<"outer", "/", "index", ".ts">>

PathDocsReadme == <<"docs", "/", "README", ".md">>

\* the paths cited by the anchors of the policy inputs
PolicyPaths ==
    { <<>>, PathIndexTs, PathClaimsJson, PathDossier, PathReportCustom, PathOutPack,
      PathOutServerPy, PathPacksNotes, PathOutClaimsBackslash, PathPacksIndexTs,
      PathOuterIndexTs, PathDocsReadme }

\* anchors: every path with a verified hash; every hash / flag combination on
\* a source path; file-existence anchors after the existence check; a raw string
PolicyAnchors ==
    {make_ev(p, "True", 11) : p \in PolicyPaths}
    \cup {make_ev(PathIndexTs, v, h) : v \in {"True", "False", "None", "1"}, h \in {0, 11}}
    \cup {add_file_exists_check(make_file_exists_evidence(p)) :
              p \in {PathIndexTs, PathPackageLock, PathClaimsJson}}
    \cup {StrEvidence}

Sections == {"Overview", "Security", ""}

MakeClaim(id, section, evidence, confidence) ==
    [id |-> id, statement |-> "System uses X", section |-> section,
     evidence |-> evidence, confidence |-> confidence]

EvValid1 == make_ev(PathIndexTs, "True", 11)

EvValid2 == make_ev(PathPackageJson, "True", 12)

EvCircular == make_ev(PathClaimsJson, "True", 13)

EvUnverified == make_ev(PathIndexTs, "False", 14)

EvFileExists == add_file_exists_check(make_file_exists_evidence(PathPackageJson))

\* evidence lists of the claims handed to the assembler
PackEvidenceLists ==
    { <<>>, <<EvValid1>>, <<EvCircular>>, <<EvCircular, EvValid1>>, <<EvValid1, EvUnverified>>,
      <<EvValid1, EvValid2>>, <<EvFileExists>> }

\* claims documents: claim i has id i ("claim_00i"); confidence in 1/100
ClaimDocs(evidence_lists, sections, n) ==
    UNION {{[i \in 1..k |-> MakeClaim(i, se[i][1], se[i][2], 90)] :
               se \in [1..k -> sections \X evidence_lists]} : k \in 0..n}

Item(command, description, shape, evidence) ==
    [command |-> command, description |-> description, name |-> "PORT",
     purpose |-> "listen port", shape |-> shape, evidence |-> evidence]

EmptyHowto ==
    [install_steps |-> <<>>, config |-> <<>>, run_dev |-> <<>>, run_prod |-> <<>>,
     verification_steps |-> <<>>, common_failures |-> <<>>, route_inventory |-> <<>>,
     schema_inventory |-> <<>>, enforcement_inventory |-> <<>>, usage_examples |-> <<>>,
     unknowns |-> <<>>, port_evidence |-> <<>>,
     completeness |-> [present |-> FALSE, score |-> 0, max |-> 100]]

\* how-to documents whose sections carry evidence of every shape
StructuralHowtos ==
    { [EmptyHowto EXCEPT
          !.install_steps = ins, !.config = cfg, !.run_dev = dev, !.verification_steps = ver,
          !.common_failures = fail, !.route_inventory = rt, !.schema_inventory = sch,
          !.enforcement_inventory = enf] :
        ins \in { <<>>,
                  <<Item("npm install", "Install", "dict", <<make_ev(PathPackageJson, "True", 21)>>)>>,
                  <<Item("npm ci", "None", "dict", <<make_file_exists_evidence(PathPackageLock)>>),
                    Item("make", "Build", "None", <<>>)>> },
        cfg \in { <<>>, <<Item("None", "Port", "list", <<make_ev(PathIndexTs, "True", 22),
                                                          make_ev(PathClaimsJson, "True", 13)>>)>> },
        dev \in { <<>>, <<Item("npm run dev", "Run", "dict", <<make_ev(PathIndexTs, "False", 23)>>)>> },
        ver \in { <<>>, <<Item(" Unknown ", "Check", "str", <<>>)>> },
        fail \in { <<>>, <<Item("None", "Crash", "dict", <<make_ev(PathIndexTs, "None", 0)>>)>> },
        rt \in { <<>>,
                 <<Item("/health", "None", "dict", <<make_ev(PathIndexTs, "True", 31)>>)>>,
                 <<Item("/login", "Login", "dict", <<make_ev(<<>>, "True", 34)>>)>> },
        sch \in { <<>>, <<Item("users", "Users table", "dict", <<make_ev(PathClaimsJson, "True", 32)>>)>> },
        enf \in { <<>>, <<Item("None", "None", "dict", <<make_ev(PathIndexTs, "False", 33)>>)>> } }

\* how-to documents exercising the completeness rubric
RubricHowtos ==
    { [EmptyHowto EXCEPT
          !.run_dev = dev, !.config = cfg, !.usage_examples = use, !.port_evidence = port,
          !.unknowns = [i \in 1..n |-> "?"]] :
        dev \in { <<>>, <<Item("npm run dev", "Run", "dict",
                               <<make_evidence(PathIndexTs, 2, 2, <<"app", ".", "listen">>)>>)>> },
        cfg \in { <<>>, <<Item("None", "Port", "dict", <<make_ev(PathIndexTs, "True", 22)>>)>> },
        use \in { <<>>, <<"Start the server">> },
        port \in { <<>>, <<make_file_exists_evidence(PathPackageJson)>> },
        n \in 0..MaxHowtoUnknowns }

Categories ==
    <<"tls_termination", "encryption_at_rest", "secret_management", "deployment_topology",
      "runtime_iam", "logging_sink", "monitoring_alerting", "backup_retention",
      "data_residency">>

(***************************************************************************)
(* core/unknowns.py.  A file_exact pattern is a set of alternatives: the   *)
(* tokens the path ends with, whether they must be the whole file name     *)
(* ("(^|/)...$"), and a token the path must hold ("" for none).  The file  *)
(* names of the model are in the case the patterns are written in.  The    *)
(* static texts of a category are the pairs <<registry, category>>.        *)
(***************************************************************************)
UPGRADE_RULES ==
    LET names(anchored, stems, exts) ==
            {[anchored |-> anchored, end |-> <<st, e>>, has |-> ""] : st \in stems, e \in exts}
        name(stem) == {[anchored |-> TRUE, end |-> <<stem>>, has |-> ""]}
        ext(e) == {[anchored |-> FALSE, end |-> <<e>>, has |-> ""]}
        yaml == {".yaml", ".yml"}
        yaml_json == {".yaml", ".yml", ".json"}
    IN [c \in {Categories[i] : i \in DOMAIN Categories} |->
         CASE c = "tls_termination" ->
                  << names(TRUE, {"ingress"}, yaml_json), ext(".tf"), name("Caddyfile"),
                     names(TRUE, {"nginx"}, {".conf"}) >>
           [] c = "encryption_at_rest" ->
                  << ext(".tf"), ext(".tf"), names(TRUE, {"storageclass"}, yaml_json) >>
           [] c = "secret_management" ->
                  << names(TRUE, {"externalsecret", "externalsecrets"}, yaml_json),
                     names(TRUE, {"sealedsecret", "sealedsecrets"}, yaml_json), ext(".tf"),
                     names(TRUE, {"vault-agent"}, {".hcl", ".json"}) >>
           [] c = "deployment_topology" ->
                  << name("Dockerfile"), names(TRUE, {"docker-compose"}, yaml),
                     names(TRUE, {"deployment"}, yaml_json), names(TRUE, {"main"}, {".tf"}),
                     names(TRUE, {"Chart"}, {".yaml"}), names(TRUE, {"fly"}, {".toml"}),
                     name("Procfile") >>
           [] c = "runtime_iam" ->
                  << names(TRUE, {"serviceaccount"}, yaml_json),
                     names(TRUE, {"role", "clusterrole", "rolebinding", "clusterrolebinding"},
                           yaml_json),
                     ext(".tf"), ext(".rego") >>
           [] c = "logging_sink" ->
                  << names(TRUE, {"fluentd", "fluentbit"}, {".conf"} \cup yaml),
                     names(TRUE, {"logstash"}, {".conf"} \cup yaml), ext(".tf") >>
           [] c = "monitoring_alerting" ->
                  << names(TRUE, {"prometheus"}, yaml \cup {".rules"}),
                     names(TRUE, {"servicemonitor"}, yaml_json),
                     {[anchored |-> FALSE, end |-> <<".json">>, has |-> "grafana"]},
                     ext(".tf"),
                     name(".sentryclirc")
                         \cup names(FALSE, {"sentry"}, yaml_json \cup {".properties"}) >>
           [] c = "backup_retention" ->
                  << ext(".tf"), names(TRUE, {"cronjob"}, yaml_json) >>
           [] OTHER -> << ext(".tf") >>]

\* _find_artifact_files_in_index: the matching files in rule order, then in
\* index order, each file once
find_artifact_files_in_index(fi, rules) ==
    LET file_exact_search(rule, f) ==
            \E pat \in rule :
                LET n == Len(pat.end)
                IN /\ Len(f) >= n
                   /\ Suffix(f, Len(f) - n + 1) = pat.end
                   /\ pat.anchored => (Len(f) = n \/ f[Len(f) - n] = "/")
                   /\ pat.has # "" => \E i \in 1..(Len(f) - n) : f[i] = pat.has
        first_rule(f) == CHOOSE r \in DOMAIN rules :
                             /\ file_exact_search(rules[r], f)
                             /\ \A q \in DOMAIN rules : file_exact_search(rules[q], f) => r <= q
        first_index(f) == CHOOSE i \in DOMAIN fi : fi[i] = f /\ \A j \in DOMAIN fi : fi[j] = f => i <= j
        hits == {i \in DOMAIN fi : /\ \E r \in DOMAIN rules : file_exact_search(rules[r], fi[i])
                                    /\ first_index(fi[i]) = i}
        order == SortedSeq({first_rule(fi[i]) * (Len(fi) + 1) + i : i \in hits})
    IN [k \in DOMAIN order |-> fi[order[k] % (Len(fi) + 1)]]

\* compute_known_unknowns promoting a category when a file name matches
compute_known_unknowns_by_file_name(h, cl, coverage, fi) ==
    [k \in DOMAIN Categories |->
        LET artifact_files == find_artifact_files_in_index(fi, UPGRADE_RULES[Categories[k]])
        IN [category |-> Categories[k],
            description |-> <<"_CATEGORY_DESCRIPTIONS", Categories[k]>>,
            status |-> IF artifact_files # <<>> THEN "VERIFIED" ELSE "UNKNOWN",
            evidence |-> <<>>,
            notes |-> SubSeq(artifact_files, 1, Min(3, Len(artifact_files))),
            resolve_with |-> <<"_CATEGORY_RESOLVE_WITH", Categories[k]>>]]

\* compute_known_unknowns ; howto, claims and coverage are not read.  notes
\* holds the files named in the text: artifact_files[:3], none for the text
\* "No matching infrastructure/config artifacts found in file index"
compute_known_unknowns(h, cl, coverage, fi) ==
    [k \in DOMAIN Categories |->
        LET artifact_files == find_artifact_files_in_index(fi, UPGRADE_RULES[Categories[k]])
        IN [category |-> Categories[k],
            description |-> <<"_CATEGORY_DESCRIPTIONS", Categories[k]>>,
            status |-> "UNKNOWN",
            evidence |-> <<>>,
            notes |-> SubSeq(artifact_files, 1, Min(3, Len(artifact_files))),
            resolve_with |-> <<"_CATEGORY_RESOLVE_WITH", Categories[k]>>]]


\* known-unknowns lists: the first k categories, each UNKNOWN or VERIFIED
UnknownsLists(n) ==
    UNION {{[i \in 1..k |-> [category |-> Categories[i], status |-> st[i], evidence |-> <<>>]] :
               st \in [1..k -> {"UNKNOWN", "VERIFIED"}]} : k \in 0..Min(n, Len(Categories))}

FileNames == <<PathIndexTs, PathPackageJson, PathDocsReadme, PathOuterIndexTs>>

FileIndexes(n) == {SubSeq(FileNames, 1, k) : k \in 0..Min(n, Len(FileNames))}

NoPack == [evidence_pack_version |-> "None"]

\* skipped_files = -1 : the caller does not pass the skipped_files argument
NotPassed == -1

NoReport == [mode |-> "None"]

NoDiff == [diff_version |-> "None"]

\* the claims of the packs handed to the renderer: claim i has id i
CatalogClaim(i) ==
    LET sections == <<"ci/gating", "Overview", "runtime/entrypoint", "ci/gating", "Security",
                      "runtime/entrypoint", "ci/gating", "Overview", "Security">>
        statements == <<"Claim A", "Claim B", "Claim C", "Claim D", "Claim E", "Claim F",
                        "Claim G", "Claim H", "Claim I">>
    IN [id |-> i,
        statement |-> statements[((i - 1) % Len(statements)) + 1],
        section |-> sections[((i - 1) % Len(sections)) + 1],
        evidence |-> IF i % 3 = 0
                     THEN <<make_ev(PathIndexTs, "True", 40 + i),
                            make_ev(PathPackageJson, "True", 60 + i)>>
                     ELSE <<make_ev(PathIndexTs, "True", 40 + i)>>,
        confidence |-> 90]

\* the claims document holding the catalog claims with ids in S, in order
CatalogDoc(S) == [k \in DOMAIN SortedSeq(S) |-> CatalogClaim(SortedSeq(S)[k])]

\* the pack the assembler builds from a claims document
BuiltFrom(doc, ku) ==
    build_evidence_pack(EmptyHowto, doc, [mode |-> "github", scanned |-> 1],
                        <<PathIndexTs>>, ku, "github", "run_001")

\* a known-unknowns list of one category
UnknownTls(status) == << [category |-> Categories[1], status |-> status, evidence |-> <<>>] >>

FullPack == BuiltFrom(CatalogDoc(1..MaxCatalog), UnknownTls("UNKNOWN"))

\* a pack file edited by hand: the evidence of claim k replaced
replace_evidence(p, k, e) ==
    [p EXCEPT !.verified =
        [s \in DOMAIN p.verified |->
            [j \in DOMAIN p.verified[s] |->
                IF p.verified[s][j].id = k
                THEN [p.verified[s][j] EXCEPT !.evidence = e]
                ELSE p.verified[s][j]]]]

EditedPacks ==
    {replace_evidence(BuiltFrom(CatalogDoc(1..MaxCatalog), <<>>), k, e) :
        k \in 1..MaxCatalog, e \in {<<>>, <<EvUnverified>>, <<EvCircular>>, <<StrEvidence>>}}

\* the pack of tests/test_contract_audit_block.py
MINIMAL_PACK ==
    [evidence_pack_version |-> "1.0",
     mode |-> "test",
     run_id |-> "test_run_001",
     verified |->
         [s \in {"What the Target System Is"} |->
             << [id |-> 1, statement |-> "Test claim", section |-> "What the Target System Is",
                 evidence |-> <<make_ev(<<"test", ".py">>, "True", 123)>>, confidence |-> 60] >>],
     verified_keys |-> <<"What the Target System Is">>,
     verified_structural |->
         [routes |-> <<>>, dependencies |-> <<>>, schemas |-> <<>>, enforcement |-> <<>>,
          has_notes |-> TRUE,
          notes |-> [b \in {"routes", "dependencies", "schemas", "enforcement"} |->
                        <<"not_implemented", "requires a dedicated extractor">>]],
     unknowns |-> << [category |-> "tls_termination", status |-> "UNKNOWN", evidence |-> <<>>] >>,
     metrics |->
         [dci_v1_claim_visibility |->
              [score |-> 8824,
               label |-> "DCI_v1_claim_visibility",
               formula |-> "verified_claims / total_claims",
               interpretation |-> "Percent of claims with deterministic hash-verified evidence. This is claim-evidence visibility, NOT system surface visibility."],
          rci_reporting_completeness |->
              [score |-> 5008,
               label |-> "RCI - Reporting Completeness",
               formula |-> "average(claims_coverage, unknowns_coverage, howto_completeness)",
               interpretation |-> "Composite completeness of PTA reporting. NOT a security or structural visibility score.",
               components |-> [claims_coverage |-> 8824, unknowns_coverage |-> 0,
                               howto_completeness |-> 6200]],
          dci_v2_structural_visibility |->
              [score |-> "None",
               label |-> "DCI_v2_structural_visibility (not implemented)",
               formula |-> "verified_structural_items / total_structural_surface",
               interpretation |-> "Structural surface visibility. Not yet implemented.",
               status |-> "not_implemented"]],
     hashes |-> [snippets |-> <<123>>],
     summary |-> [total_files |-> 100, total_claims |-> 17, verified_claims |-> 15,
                  unknown_categories |-> 1, verified_categories |-> 0]]

\* the packs handed to render_report; the last has 1 verified claim of 16, a
\* score whose one-digit percentage is a tie
RenderPacks ==
    {BuiltFrom(CatalogDoc(S), UnknownTls("UNKNOWN")) : S \in SUBSET (1..MaxCatalog)}
    \cup EditedPacks
    \cup {MINIMAL_PACK, [MINIMAL_PACK EXCEPT !.metrics.dci_v1_claim_visibility.score = 625]}
    \cup {BuiltFrom(CatalogDoc({}),
                     compute_known_unknowns(EmptyHowto, <<>>, [mode |-> "github", scanned |-> Len(fi)],
                                            fi)) :
              fi \in {<<>>, << <<"infra", "/", "main", ".tf">> >>}}

RenderModes == {"engineer", "auditor", "executive", "plain", "verbose"}

\* the claims of the packs handed to the diff command
DiffClaims ==
    { [id |-> 0, statement |-> "Claim A", section |-> "Overview",
       evidence |-> <<EvValid1>>, confidence |-> 90],
      [id |-> 0, statement |-> "Claim A", section |-> "Overview",
       evidence |-> <<EvValid2>>, confidence |-> 60],
      [id |-> 0, statement |-> "Claim A", section |-> "Overview",
       evidence |-> <<make_ev(PathOuterIndexTs, "True", 11)>>, confidence |-> 90],
      [id |-> 0, statement |-> "Claim B", section |-> "Security",
       evidence |-> <<EvValid1, EvValid2>>, confidence |-> 90] }

\* a pack written by an earlier build, whose metrics carry the key "dci"
with_dci(p) ==
    [p EXCEPT !.metrics =
        [k \in DOMAIN p.metrics \cup {"dci"} |->
            IF k = "dci"
            THEN [score |-> p.metrics.dci_v1_claim_visibility.score,
                  components |-> [claims_coverage |-> p.metrics.dci_v1_claim_visibility.score]]
            ELSE p.metrics[k]]]

\* the packs handed to the diff command: claim i of a document has id i; the
\* packs without claims carry known-unknowns lists of every shape
DiffPacks ==
    LET docs == {[i \in DOMAIN cs |-> [cs[i] EXCEPT !.id = i]] :
                    cs \in SeqsUpTo(DiffClaims, MaxDiffClaims)}
    IN {BuiltFrom(doc, UnknownTls("UNKNOWN")) : doc \in docs}
       \cup {with_dci(BuiltFrom(doc, UnknownTls("VERIFIED"))) : doc \in docs}
       \cup {BuiltFrom(<<>>, ku) : ku \in UnknownsLists(MaxUnknowns)}

\* the arguments of the diff command
PACK_FILE_A == "run1/evidence_pack.v1.json"

PACK_FILE_B == "run2/evidence_pack.v1.json"

\* the fixture of tests/test_schema_contract.py: a pack that passes validation
FixturePack ==
    [f \in DOMAIN MINIMAL_PACK \cup {"tool_version", "coverage"} |->
        IF f = "tool_version" THEN "rr-0.1.0"
        ELSE IF f = "coverage"
             THEN [analyzed_files |-> 100, total_files_seen |-> 100, skipped_files |-> 0,
                   partial |-> FALSE]
        ELSE MINIMAL_PACK[f]]

\* packs put together by hand, as the tests do: fields emptied, replaced or
\* deleted (del pack[field]; the key order goes with "verified")
HandPacks ==
    LET without_fields(p, removed) ==
            [f \in DOMAIN p \ (removed \cup (IF "verified" \in removed
                                               THEN {"verified_keys"} ELSE {})) |-> p[f]]
    IN {without_fields([FixturePack EXCEPT !.tool_version = tv, !.run_id = rid,
                                           !.evidence_pack_version = ver, !.coverage = cov],
                       removed) :
           tv \in {"rr-0.1.0", ""}, rid \in {"test_run_schema", ""}, ver \in {"1.0", "99.0"},
           cov \in {FixturePack.coverage, <<>>, [analyzed_files |-> 100],
                    [total_files_seen |-> 100]},
           removed \in SUBSET {"coverage", "tool_version", "run_id", "verified"}}
       \cup {[evidence_pack_version |-> "1.0"]}

InitCommon == verdict = <<>>

\* an analysis run: nothing on disk, the default render mode
InitRun ==
    /\ pack = NoPack
    /\ disk = <<>>
    /\ mode = "engineer"
    /\ pack_b = NoPack
    /\ report = NoReport
    /\ diff = NoDiff
    /\ errors = <<>>

\* no analysis inputs: a call or command that starts from a pack
InitIdle ==
    /\ claims = <<>>
    /\ howto = EmptyHowto
    /\ file_index = <<>>
    /\ known_unknowns = <<>>
    /\ skipped_files = NotPassed
    /\ pack_b = NoPack
    /\ report = NoReport
    /\ diff = NoDiff
    /\ errors = <<>>

\* one claim under the verification policy
InitPolicy ==
    /\ claims \in {<<MakeClaim(1, "Overview", e, 90)>> : e \in SeqsUpTo(PolicyAnchors, MaxEvidence)}
    /\ howto = EmptyHowto
    /\ file_index = <<>>
    /\ known_unknowns = <<>>
    /\ skipped_files = NotPassed
    /\ pc = "policy"

\* claims documents handed to the assembler
InitPack ==
    /\ claims \in ClaimDocs(PackEvidenceLists, Sections, MaxClaims)
    /\ howto = EmptyHowto
    /\ file_index = <<PathIndexTs>>
    /\ known_unknowns = <<>>
    /\ skipped_files = NotPassed
    /\ pc = "howto"

\* how-to documents handed to the assembler
InitStructural ==
    /\ claims \in ClaimDocs({<<EvCircular, EvValid1>>}, {"Overview"}, 1)
    /\ howto \in StructuralHowtos
    /\ file_index = <<PathIndexTs>>
    /\ known_unknowns = <<>>
    /\ skipped_files = NotPassed
    /\ pc = "howto"

\* inputs of the metrics
InitMetrics ==
    /\ claims \in ClaimDocs({<<EvValid1>>, <<EvUnverified>>}, {"Overview"}, MaxClaims)
    /\ howto \in RubricHowtos
    /\ file_index = <<PathIndexTs>>
    /\ known_unknowns \in UnknownsLists(MaxUnknowns)
    /\ skipped_files = NotPassed
    /\ pc = "howto"

\* inputs of the coverage record
InitCoverage ==
    /\ claims \in ClaimDocs({<<EvValid1>>}, {"Overview"}, 1)
    /\ howto = EmptyHowto
    /\ file_index \in FileIndexes(MaxFiles)
    /\ known_unknowns = <<>>
    /\ skipped_files \in NotPassed..MaxSkipped
    /\ pc = "howto"

\* Analyzer.run at step 6: claims that speak of a category, an index with
\* infrastructure files
InitUnknowns ==
    /\ claims \in {<<>>, <<[MakeClaim(1, "Security", <<EvValid1>>, 90)
                               EXCEPT !.statement = "tls_termination"]>>}
    /\ howto = EmptyHowto
    /\ file_index \in SeqsUpTo({ <<"Dockerfile">>, <<"infra", "/", "main", ".tf">>,
                                  <<"k8s", "/", "ingress", ".yaml">>,
                                  <<"ops", "/", "grafana", "/", "board", ".json">>,
                                  <<"myingress", ".yaml">>, PathIndexTs }, MaxFiles)
    /\ known_unknowns = <<>>
    /\ skipped_files = NotPassed
    /\ pc = "unknowns"

\* Analyzer.run at step 5: the claims document before re-validation (the
\* model's answer, or the arguments of the _add calls).  The anchors cite
\* one line, two lines, a generated file, a missing file, no line, or are
\* strings or file-existence anchors.
InitValidate ==
    /\ claims \in
         LET dict(path, line_start, line_end) ==
                 [make_ev(path, "None", 11) EXCEPT !.line_start = line_start,
                                                   !.line_end = line_end]
             str(path, line_start, line_end) ==
                 [StrEvidence EXCEPT !.path = path, !.line_start = line_start,
                                     !.line_end = line_end]
             anchors ==
                 { dict(PathIndexTs, 1, 0), dict(PathIndexTs, 1, 2), dict(PathClaimsJson, 1, 1),
                   dict(PathPackageLock, 1, 1), dict(PathIndexTs, 0, 0),
                   str(PathIndexTs, 1, 2), str(PathIndexTs, 2, 0), str(<<>>, 1, 0),
                   make_file_exists_evidence(PathPackageJson),
                   make_file_exists_evidence(PathPackageLock),
                   make_evidence(PathIndexTs, 1, 2,
                                 read_lines_from_repo(PathIndexTs, 1, 2)[2]) }
         IN {<<[id |-> 1, statement |-> "System uses X", section |-> "Overview",
                evidence |-> e, confidence |-> c, status |-> "evidenced"]>> :
                 e \in SeqsUpTo(anchors, MaxEvidence), c \in {15, 60}}
    /\ howto = EmptyHowto
    /\ file_index = <<PathIndexTs>>
    /\ known_unknowns = <<>>
    /\ skipped_files = NotPassed
    /\ pc = "validate"

\* render_report called on a pack, as the tests call it
InitRenderCall ==
    /\ InitIdle
    /\ pack \in RenderPacks
    /\ mode \in RenderModes
    /\ disk = <<>>
    /\ pc = "render_call"

\* the render command: a mode of class RenderMode; the pack file may be
\* missing, of another schema version or edited
InitRenderCmd ==
    /\ InitIdle
    /\ pack = NoPack
    /\ mode \in {"engineer", "auditor", "executive"}
    /\ disk \in {<<>>}
               \cup {write_file(<<>>, PACK_FILE, p) :
                        p \in {FullPack, [FullPack EXCEPT !.evidence_pack_version = "99.0"],
                               MINIMAL_PACK, replace_evidence(FullPack, 1, <<>>)}}
    /\ pc = "render_cmd"

\* the diff command: either pack file may be missing
InitDiffCmd ==
    /\ InitIdle
    /\ pack = NoPack
    /\ mode = "engineer"
    /\ disk \in {write_file(write_file(<<>>, PACK_FILE_A, a), PACK_FILE_B, b) :
                     a, b \in DiffPacks}
               \cup {<<>>, write_file(<<>>, PACK_FILE_A, FullPack),
                     write_file(<<>>, PACK_FILE_B, FullPack),
                     write_file(write_file(<<>>, PACK_FILE_A, FullPack), PACK_FILE_B,
                                [FullPack EXCEPT !.evidence_pack_version = "99.0"])}
    /\ pc = "diff_cmd"

\* validate_evidence_pack and save_evidence_pack called on a pack
InitHand ==
    /\ InitIdle
    /\ pack \in HandPacks
    /\ mode = "engineer"
    /\ disk = <<>>
    /\ pc = "hand"

Init ==
    /\ InitCommon
    /\ \/ InitRun /\ (InitPolicy \/ InitPack \/ InitStructural \/ InitMetrics \/ InitCoverage
                      \/ InitUnknowns \/ InitValidate)
       \/ InitRenderCall
       \/ InitRenderCmd
       \/ InitDiffCmd
       \/ InitHand

(***************************************************************************)
(* Operations.                                                             *)
(***************************************************************************)
\* the verification policy applied to every claim of the document
ApplyPolicy ==
    /\ pc = "policy"
    /\ verdict' = [i \in DOMAIN claims |->
                      [tiers |-> [j \in DOMAIN claims[i].evidence |->
                                     evidence_tier(claims[i].evidence[j])],
                       anchor_verified |-> [j \in DOMAIN claims[i].evidence |->
                                     is_evidence_verified_v1(claims[i].evidence[j])],
                       is_verified |-> is_verified_claim(claims[i]),
                       verified_evidence |-> get_verified_evidence(claims[i])]]
    /\ pc' = "policy_done"
    /\ UNCHANGED <<claims, howto, file_index, known_unknowns, skipped_files, pack>>
    /\ UNCHANGED <<disk, mode, pack_b, report, diff, errors>>

\* Analyzer.run lines 107 / 114 : howto["completeness"] = self._compute_completeness(howto)
ComputeCompleteness ==
    /\ pc = "howto"
    /\ howto' = [howto EXCEPT !.completeness = compute_completeness(howto)]
    /\ pc' = "assemble"
    /\ UNCHANGED <<claims, file_index, known_unknowns, skipped_files, verdict, pack>>
    /\ UNCHANGED <<disk, mode, pack_b, report, diff, errors>>

\* Analyzer.run step 5, model path: claims = self._verify_claims_evidence(claims)
VerifyClaimsEvidence ==
    /\ pc = "validate"
    /\ claims' = verify_claims_evidence(claims)
    /\ pc' = "claims_verified"
    /\ UNCHANGED <<howto, file_index, known_unknowns, skipped_files, verdict, pack>>
    /\ UNCHANGED <<disk, mode, pack_b, report, diff, errors>>

\* Analyzer.run step 4 with --no-llm: _build_deterministic_claims, one _add
\* call per proposed claim
BuildDeterministicClaims ==
    /\ pc = "validate"
    /\ claims' = [i \in DOMAIN claims |->
                      _add(i, claims[i].section, claims[i].statement, claims[i].confidence,
                          claims[i].evidence, claims[i].status)]
    /\ pc' = "claims_built"
    /\ UNCHANGED <<howto, file_index, known_unknowns, skipped_files, verdict, pack>>
    /\ UNCHANGED <<disk, mode, pack_b, report, diff, errors>>

\* Analyzer.run step 6: known_unknowns = compute_known_unknowns(...)
ComputeKnownUnknowns ==
    /\ pc = "unknowns"
    /\ known_unknowns' = compute_known_unknowns(howto, claims,
                              [mode |-> "github", scanned |-> Len(file_index)], file_index)
    /\ pc' = "unknowns_done"
    /\ UNCHANGED <<claims, howto, file_index, skipped_files, verdict, pack>>
    /\ UNCHANGED <<disk, mode, pack_b, report, diff, errors>>

\* the call of build_evidence_pack.  The function has no skipped_files
\* parameter: a call that passes it raises TypeError and builds nothing.
BuildEvidencePack ==
    /\ pc \in {"assemble", "unknowns_done"}
    /\ IF skipped_files # NotPassed
       THEN /\ pc' = "type_error"
            /\ pack' = pack
       ELSE /\ pack' = build_evidence_pack(howto, claims,
                           [mode |-> "github", scanned |-> Len(file_index)],
                           file_index, known_unknowns, "github", "run_001")
            /\ pc' = "built"
    /\ UNCHANGED <<claims, howto, file_index, known_unknowns, skipped_files, verdict>>
    /\ UNCHANGED <<disk, mode, pack_b, report, diff, errors>>

\* save_evidence_pack(pack, output_dir) : by Analyzer.run line 194 after the
\* build, or called on a pack put together by hand
SaveEvidencePack ==
    /\ pc \in {"built", "hand"}
    /\ disk' = save_evidence_pack(disk, pack)
    /\ pc' = IF pc = "built" THEN "saved" ELSE "save_returned"
    /\ UNCHANGED <<claims, howto, file_index, known_unknowns, skipped_files, verdict,
                 pack, mode, pack_b, report, diff, errors>>

\* validate_evidence_pack(pack)
ValidateEvidencePack ==
    /\ pc \in {"built", "hand"}
    /\ errors' = validate_evidence_pack(pack)
    /\ pc' = "validated"
    /\ UNCHANGED <<claims, howto, file_index, known_unknowns, skipped_files, verdict,
                 pack, disk, mode, pack_b, report, diff>>

\* Analyzer.run line 195
AssertPackWritten ==
    /\ pc = "saved"
    /\ pc' = IF assert_pack_written(disk, PACK_FILE) THEN "render" ELSE "guard_failed"
    /\ UNCHANGED <<claims, howto, file_index, known_unknowns, skipped_files, verdict,
                 pack, disk, mode, pack_b, report, diff, errors>>

\* render_report then save_report: Analyzer.run lines 199-200 and the
\* render command, lines 163-164
RenderAndSave ==
    /\ pc = "render"
    /\ \E tie_up \in (IF mode = "executive" /\ is_tie(pack) THEN BOOLEAN ELSE {FALSE}) :
           /\ report' = render_report(pack, mode, tie_up)
           /\ disk' = save_report(disk, render_report(pack, mode, tie_up), mode)
    /\ pc' = "rendered"
    /\ UNCHANGED <<claims, howto, file_index, known_unknowns, skipped_files, verdict,
                 pack, mode, pack_b, diff, errors>>

\* render_report(pack, mode) called on a pack in memory
RenderReportCall ==
    /\ pc = "render_call"
    /\ \E tie_up \in (IF mode = "executive" /\ is_tie(pack) THEN BOOLEAN ELSE {FALSE}) :
           report' = render_report(pack, mode, tie_up)
    /\ pc' = "report"
    /\ UNCHANGED <<claims, howto, file_index, known_unknowns, skipped_files, verdict,
                 pack, disk, mode, pack_b, diff, errors>>

\* the render command up to load_evidence_pack, lines 153-162
RenderCmdLoad ==
    /\ pc = "render_cmd"
    /\ IF ~path_exists(disk, PACK_FILE)
       THEN pc' = "exit_1" /\ pack' = pack
       ELSE IF load_evidence_pack(disk, PACK_FILE) = FileNotFound
       THEN pc' = "exception" /\ pack' = pack
       ELSE pc' = "render" /\ pack' = load_evidence_pack(disk, PACK_FILE)
    /\ UNCHANGED <<claims, howto, file_index, known_unknowns, skipped_files, verdict,
                 disk, mode, pack_b, report, diff, errors>>

\* the diff command up to the second load_evidence_pack, lines 107-122
DiffCmdLoad ==
    /\ pc = "diff_cmd"
    /\ IF ~path_exists(disk, PACK_FILE_A) \/ ~path_exists(disk, PACK_FILE_B)
       THEN pc' = "exit_1" /\ pack' = pack /\ pack_b' = pack_b
       ELSE IF FileNotFound \in {load_evidence_pack(disk, PACK_FILE_A),
                                 load_evidence_pack(disk, PACK_FILE_B)}
       THEN pc' = "exception" /\ pack' = pack /\ pack_b' = pack_b
       ELSE /\ pc' = "diff"
            /\ pack' = load_evidence_pack(disk, PACK_FILE_A)
            /\ pack_b' = load_evidence_pack(disk, PACK_FILE_B)
    /\ UNCHANGED <<claims, howto, file_index, known_unknowns, skipped_files, verdict,
                 disk, mode, report, diff, errors>>

\* diff_packs then save_diff, lines 125-127
DiffAndSave ==
    /\ pc = "diff"
    /\ diff' = diff_packs(pack, pack_b)
    /\ disk' = save_diff(disk, diff_packs(pack, pack_b))
    /\ pc' = "diffed"
    /\ UNCHANGED <<claims, howto, file_index, known_unknowns, skipped_files, verdict,
                 pack, mode, pack_b, report, errors>>

Next ==
    \/ ApplyPolicy
    \/ ComputeCompleteness
    \/ VerifyClaimsEvidence
    \/ BuildDeterministicClaims
    \/ ComputeKnownUnknowns
    \/ BuildEvidencePack
    \/ SaveEvidencePack
    \/ ValidateEvidencePack
    \/ AssertPackWritten
    \/ RenderAndSave
    \/ RenderReportCall
    \/ RenderCmdLoad
    \/ DiffCmdLoad
    \/ DiffAndSave

Spec == Init /\ [][Next]_vars

(***************************************************************************)
(* The verification rule as the specification words it.                    *)
(***************************************************************************)
\* the anchor has a non-empty path, a non-empty content hash and hash_verified = true
ReachesHashTier(ev) ==
    ev.kind # "<str>" /\ ev.path # <<>> /\ ev.snippet_hash # 0 /\ ev.snippet_hash_verified = "True"

\* the anchor cites one of the tool's own generated outputs
Circular(ev) == is_generated_artifact(ev.path)

PassesPolicy(claim) ==
    \E j \in DOMAIN claim.evidence :
        ReachesHashTier(claim.evidence[j]) /\ ~Circular(claim.evidence[j])

\* the path starts with, or contains as a directory component, packs/ or out/
UnderGeneratedDir(path) ==
    \E dir \in {"packs", "out"} :
        StartsWith(path, <<dir, "/">>) \/ Contains(path, <<"/", dir, "/">>)

\* the ids of the claims of a pack section, in order
Ids(cs) == [k \in DOMAIN cs |-> cs[k].id]

\* the ids of all claims in the verified map of the pack
VerifiedIds == UNION {{pack.verified[s][k].id : k \in DOMAIN pack.verified[s]} : s \in DOMAIN pack.verified}

(***************************************************************************)
(* C1.  A claim all of whose evidence anchors cite generated artifacts is  *)
(* not verified, whatever the anchors' hashes and even when                *)
(* snippet_hash_verified is true on every one of them.                     *)
(***************************************************************************)
C1_OnlyGeneratedEvidenceNotVerified ==
    pc = "policy_done" =>
        \A i \in DOMAIN claims :
            (\A j \in DOMAIN claims[i].evidence : Circular(claims[i].evidence[j]))
                => verdict[i].is_verified = FALSE

C1_Witness ==
    /\ pc = "policy_done"
    /\ Len(claims[1].evidence) = 2
    /\ claims[1].evidence[1].path # claims[1].evidence[2].path
    /\ \A j \in DOMAIN claims[1].evidence :
           /\ Circular(claims[1].evidence[j])
           /\ claims[1].evidence[j].snippet_hash # 0
           /\ claims[1].evidence[j].snippet_hash_verified = "True"
    /\ verdict[1].is_verified = FALSE

(***************************************************************************)
(* C2.  is_verified_claim(claim) is true exactly when some evidence anchor *)
(* has a non-empty path, a non-empty hash, snippet_hash_verified = true    *)
(* and a path that is not a generated artifact; an empty evidence list is  *)
(* not verified and a mixed list is decided by its valid anchors.          *)
(***************************************************************************)
C2_VerifiedIffValidAnchor ==
    pc = "policy_done" =>
        \A i \in DOMAIN claims : verdict[i].is_verified = PassesPolicy(claims[i])

C2_Witness ==
    /\ pc = "policy_done"
    /\ \E j, k \in DOMAIN claims[1].evidence :
           /\ Circular(claims[1].evidence[j]) /\ ReachesHashTier(claims[1].evidence[j])
           /\ ~Circular(claims[1].evidence[k]) /\ ReachesHashTier(claims[1].evidence[k])
    /\ verdict[1].is_verified = TRUE

(***************************************************************************)
(* C3.  Every anchor whose path lies under a generated-packs directory     *)
(* (packs/ or out/) is rejected whatever its file name: no tier, and not   *)
(* verified.                                                               *)
(***************************************************************************)
C3_UnderGeneratedDirRejected ==
    pc = "policy_done" =>
        \A i \in DOMAIN claims : \A j \in DOMAIN claims[i].evidence :
            UnderGeneratedDir(claims[i].evidence[j].path)
                => /\ verdict[i].tiers[j] = ""
                   /\ verdict[i].anchor_verified[j] = FALSE

(***************************************************************************)
(* C4.  A claim whose evidence consists only of file-existence anchors     *)
(* confirmed present is not a verified claim and is in no section of the   *)
(* pack's verified map.                                                    *)
(***************************************************************************)
OnlyConfirmedExistence(claim) ==
    /\ claim.evidence # <<>>
    /\ \A j \in DOMAIN claim.evidence :
           claim.evidence[j].kind = "file_exists" /\ claim.evidence[j].verified = "True"

C4_ExistenceTierNeverVerifies ==
    /\ pc = "policy_done" =>
           \A i \in DOMAIN claims :
               OnlyConfirmedExistence(claims[i]) => verdict[i].is_verified = FALSE
    /\ pc = "built" =>
           \A i \in DOMAIN claims :
               OnlyConfirmedExistence(claims[i]) => claims[i].id \notin VerifiedIds

C4_Witness ==
    /\ pc = "policy_done"
    /\ OnlyConfirmedExistence(claims[1])
    /\ \E j \in DOMAIN claims[1].evidence : verdict[1].tiers[j] = VERIFICATION_TIER_EXISTENCE
    /\ verdict[1].is_verified = FALSE

(***************************************************************************)
(* C5.  Every claim in the pack's verified map is an input claim that      *)
(* passes the policy; its evidence is non-empty and holds only HASH-tier,  *)
(* non-circular anchors; an input claim failing the policy is in no        *)
(* section.                                                                *)
(***************************************************************************)
C5_VerifiedSectionGate ==
    pc = "built" =>
        /\ \A s \in DOMAIN pack.verified : \A k \in DOMAIN pack.verified[s] :
               LET c == pack.verified[s][k]
               IN /\ \E i \in DOMAIN claims :
                         /\ claims[i].id = c.id
                         /\ claims[i].statement = c.statement
                         /\ PassesPolicy(claims[i])
                  /\ c.evidence # <<>>
                  /\ \A j \in DOMAIN c.evidence :
                         ReachesHashTier(c.evidence[j]) /\ ~Circular(c.evidence[j])
        /\ \A i \in DOMAIN claims :
               ~PassesPolicy(claims[i]) => claims[i].id \notin VerifiedIds

C5_Witness ==
    /\ pc = "built"
    /\ \E i, k \in DOMAIN claims :
           /\ PassesPolicy(claims[i])
           /\ \E j \in DOMAIN claims[i].evidence : Circular(claims[i].evidence[j])
           /\ claims[i].id \in VerifiedIds
           /\ claims[k].evidence # <<>>
           /\ ~PassesPolicy(claims[k])
           /\ claims[k].id \notin VerifiedIds

(***************************************************************************)
(* C6.  Every verified claim appears exactly once in the pack, in the      *)
(* group keyed by its own section string; groups keep the input order and  *)
(* no group is empty.                                                      *)
(***************************************************************************)
C6_GroupedByAssignedSection ==
    pc = "built" =>
        LET passing == SelectSeq(claims, PassesPolicy)
        IN /\ DOMAIN pack.verified = {passing[i].section : i \in DOMAIN passing}
           /\ \A s \in DOMAIN pack.verified :
                  /\ pack.verified[s] # <<>>
                  /\ \A k \in DOMAIN pack.verified[s] : pack.verified[s][k].section = s
                  /\ Ids(pack.verified[s]) = Ids(SelectSeq(passing, LAMBDA c : c.section = s))

C6_Witness ==
    /\ pc = "built"
    /\ \E s \in DOMAIN pack.verified : Len(pack.verified[s]) = 2
    /\ Len(claims) = 2

(***************************************************************************)
(* C7.  For each of the buckets routes, dependencies, schemas, enforcement:*)
(* an empty bucket carries a note of the form "not_implemented: <reason>". *)
(***************************************************************************)
C7_EmptyBucketNotImplementedNote ==
    pc = "built" =>
        \A b \in {"routes", "dependencies", "schemas", "enforcement"} :
            pack.verified_structural[b] = <<>>
                => /\ pack.verified_structural.has_notes
                   /\ b \in DOMAIN pack.verified_structural.notes
                   /\ pack.verified_structural.notes[b][1] = "not_implemented"

AllHowtoSections(h) ==
    <<h.install_steps, h.config, h.run_dev, h.run_prod, h.verification_steps,
      h.common_failures, h.route_inventory, h.schema_inventory, h.enforcement_inventory>>

HowtoAnchorHashes(h) ==
    UNION {UNION {{AllHowtoSections(h)[k][i].evidence[j].snippet_hash :
                     j \in DOMAIN AllHowtoSections(h)[k][i].evidence} :
                  i \in DOMAIN AllHowtoSections(h)[k]} :
           k \in DOMAIN AllHowtoSections(h)} \ {0}

ClaimAnchorHashes(cl) ==
    UNION {{cl[i].evidence[j].snippet_hash : j \in DOMAIN cl[i].evidence} : i \in DOMAIN cl} \ {0}

C9_SnippetHashesComplete ==
    pc = "built" =>
        LET snippets == pack.hashes.snippets
        IN /\ \A a, b \in DOMAIN snippets : a # b => snippets[a] # snippets[b]
           /\ \A x \in ClaimAnchorHashes(claims) \cup HowtoAnchorHashes(howto) :
                  \E a \in DOMAIN snippets : snippets[a] = x

(***************************************************************************)
(* C10.  The pack's coverage has analyzed_files = number of indexed files, *)
(* total_files_seen = analyzed_files + skipped_files, and partial true     *)
(* exactly when skipped_files > 0 (the code has no timeouts); a call that  *)
(* passes skipped_files builds such a pack.                                *)
(***************************************************************************)
C10_CoverageCounts ==
    /\ pc # "type_error"
    /\ pc = "built" =>
           /\ "coverage" \in DOMAIN pack
           /\ pack.coverage.analyzed_files = Len(file_index)
           /\ pack.coverage.total_files_seen = Len(file_index) + Max(skipped_files, 0)
           /\ pack.coverage.partial = (skipped_files > 0)

(***************************************************************************)
(* The schema contract as the specification words it: the set of rules a   *)
(* pack violates.                                                          *)
(***************************************************************************)
ViolatedRules(p) ==
    {<<"missing required field", REQUIRED_PACK_FIELDS[i]>> :
        i \in {j \in DOMAIN REQUIRED_PACK_FIELDS : REQUIRED_PACK_FIELDS[j] \notin DOMAIN p}}
    \cup {<<"empty field", f>> :
             f \in {g \in {"tool_version", "run_id"} : g \in DOMAIN p /\ p[g] \in {"", "None"}}}
    \cup {<<"unsupported schema version", v>> :
             v \in {w \in {"99.0", "None"} : "evidence_pack_version" \in DOMAIN p
                                              /\ p.evidence_pack_version = w}}
    \cup {<<"missing coverage field", f>> :
             f \in {g \in {"analyzed_files", "total_files_seen"} :
                       "coverage" \in DOMAIN p /\ g \notin DOMAIN p.coverage}}

(***************************************************************************)
(* C11.  save_evidence_pack validates the pack before writing: a pack that *)
(* violates the schema contract makes the call raise, and a pack file      *)
(* exists after the call only if the pack passed validation.               *)
(***************************************************************************)
C11_SaveValidatesBeforeWriting ==
    pc \in {"saved", "save_returned"} =>
        /\ ViolatedRules(pack) = {}
        /\ PACK_FILE \in DOMAIN disk => ViolatedRules(disk[PACK_FILE]) = {}

ReportFiles == {report_filename(m) : m \in RenderModes}

DiffFiles == {"diff.json", "DIFF_REPORT.md"}

C13_RenderOnlyAfterPackPersisted ==
    /\ pc \in {"render", "rendered"} => PACK_FILE \in DOMAIN disk
    /\ pc \in {"diff", "diffed"} => {PACK_FILE_A, PACK_FILE_B} \subseteq DOMAIN disk
    /\ ReportFiles \cap DOMAIN disk # {} => PACK_FILE \in DOMAIN disk
    /\ DiffFiles \cap DOMAIN disk # {} => {PACK_FILE_A, PACK_FILE_B} \subseteq DOMAIN disk
    /\ pc \in {"exit_1", "guard_failed"} => (ReportFiles \cup DiffFiles) \cap DOMAIN disk = {}
    /\ pc # "exception"

C13_Witness ==
    /\ pc = "exit_1"
    /\ PACK_FILE_A \in DOMAIN disk
    /\ PACK_FILE_B \notin DOMAIN disk
    /\ diff = NoDiff
    /\ DiffFiles \cap DOMAIN disk = {}

(***************************************************************************)
(* C14.  The render and diff commands reject a pack whose schema version   *)
(* differs from the version this build understands: no report and no diff  *)
(* output is produced from such a pack.                                    *)
(***************************************************************************)
C14_ConsumersRejectVersionMismatch ==
    /\ pc \in {"render", "rendered"} => pack.evidence_pack_version = EVIDENCE_PACK_VERSION
    /\ pc \in {"diff", "diffed"} =>
           /\ pack.evidence_pack_version = EVIDENCE_PACK_VERSION
           /\ pack_b.evidence_pack_version = EVIDENCE_PACK_VERSION

(***************************************************************************)
(* C15.  In auditor mode a claim of the pack's verified map that has no    *)
(* evidence anchor passing the verification policy is not in the output;   *)
(* only claims with at least one verified anchor are listed.               *)
(***************************************************************************)
\* the claims of the verified map of a pack
PackClaims(p) == UNION {{p.verified[s][k] : k \in DOMAIN p.verified[s]} : s \in DOMAIN p.verified}

\* the statements printed under the "Verified" headings of a report
ListedStatements(r) ==
    UNION {{r.verified[k].claims[i].statement : i \in DOMAIN r.verified[k].claims} :
              k \in DOMAIN r.verified}

C15_AuditorOmitsUnverifiedClaims ==
    (pc \in {"report", "rendered"} /\ report.mode = "auditor") =>
        ListedStatements(report) = {c.statement : c \in {x \in PackClaims(pack) : PassesPolicy(x)}}

(***************************************************************************)
(* C16.  Plain mode lists exactly min(5, n) verified claims, n being the   *)
(* number of claims with evidence in the pack's verified map; no claim is  *)
(* listed twice, every listed claim has evidence, and claims from the      *)
(* priority sections, in the sections' fixed order, precede the claims the *)
(* fallback takes from other sections.                                     *)
(***************************************************************************)
\* the (section, index) positions of the claims with evidence
ClaimsWithEvidence(p) ==
    UNION {{<<s, k>> : k \in {j \in DOMAIN p.verified[s] : p.verified[s][j].evidence # <<>>}} :
              s \in DOMAIN p.verified}

\* the section whose list holds the claim with this statement
SectionOfStatement(p, st) ==
    CHOOSE s \in DOMAIN p.verified : \E k \in DOMAIN p.verified[s] : p.verified[s][k].statement = st

\* position of a section in the priority order; other sections come last
PriorityRank(s) ==
    IF \E k \in DOMAIN PRIORITY_SECTIONS : PRIORITY_SECTIONS[k] = s
    THEN CHOOSE k \in DOMAIN PRIORITY_SECTIONS : PRIORITY_SECTIONS[k] = s
    ELSE Len(PRIORITY_SECTIONS) + 1

TwoDecimalPercent(score) == <<score \div 100, score % 100, 2>>

C17_SameScoreStringInEngineerAndExecutive ==
    (pc \in {"report", "rendered"} /\ report.mode \in {"engineer", "executive"}) =>
        report.scores.dci = TwoDecimalPercent(pack.metrics.dci_v1_claim_visibility.score)

(***************************************************************************)
(* C18 as stated.  The disclaimer shown for each of the three scores is    *)
(* the interpretation string stored in that score's metric object, the     *)
(* same text in engineer, auditor and executive modes.                     *)
(***************************************************************************)
StoredInterpretations(p) ==
    [dci |-> p.metrics.dci_v1_claim_visibility.interpretation,
     dci_v2 |-> p.metrics.dci_v2_structural_visibility.interpretation,
     rci |-> p.metrics.rci_reporting_completeness.interpretation]

C18_Original_AllModesShowStoredInterpretation ==
    (pc \in {"report", "rendered"} /\ report.mode \in {"engineer", "auditor", "executive"}) =>
        report.disclaimers = StoredInterpretations(pack)

(***************************************************************************)
(* C18 amended.  Auditor and executive modes show, for each of the three   *)
(* scores, the interpretation string stored in the pack's metric object;   *)
(* engineer mode shows its own fixed explanations, the same for every      *)
(* pack.                                                                   *)
(***************************************************************************)
C18_AuditorExecutiveShowStoredInterpretation ==
    /\ (pc \in {"report", "rendered"} /\ report.mode \in {"auditor", "executive"}) =>
           report.disclaimers = StoredInterpretations(pack)
    /\ (pc \in {"report", "rendered"} /\ report.mode = "engineer") =>
           report.disclaimers = render_engineer(MINIMAL_PACK).disclaimers

C18_Witness ==
    /\ pc = "report"
    /\ report.mode = "auditor"
    /\ pack = MINIMAL_PACK
    /\ report.disclaimers.dci_v2 = "Structural surface visibility. Not yet implemented."
    /\ report.disclaimers # render_engineer(pack).disclaimers

(***************************************************************************)
(* C19.  diff_packs(A, A) has empty added, removed and changed lists in    *)
(* every verified section, no unknown status changes, no added or removed  *)
(* hashes, and a visibility delta of zero with direction unchanged.        *)
(***************************************************************************)
C19_DiffOfPackWithItselfIsEmpty ==
    (pc = "diffed" /\ pack = pack_b) =>
        /\ DOMAIN diff.verified_sections = DOMAIN pack.verified
        /\ \A s \in DOMAIN diff.verified_sections :
               /\ diff.verified_sections[s].added = <<>>
               /\ diff.verified_sections[s].removed = <<>>
               /\ diff.verified_sections[s].changed = <<>>
        /\ diff.unknowns.status_changes = <<>>
        /\ diff.snippet_hashes.added = <<>>
        /\ diff.snippet_hashes.removed = <<>>
        /\ diff.dci_delta.delta = 0
        /\ diff.dci_delta.direction = "unchanged"

C19_Witness ==
    /\ pc = "diffed"
    /\ pack = pack_b
    /\ Cardinality(DOMAIN pack.verified) = 2
    /\ pack.unknowns # <<>>
    /\ pack.hashes.snippets # <<>>
    /\ "dci" \in DOMAIN pack.metrics
    /\ diff.dci_delta.old_score > 0
    /\ "diff.json" \in DOMAIN disk

(***************************************************************************)
(* C20.  For every pair of packs and every section occurring in either,    *)
(* with claims keyed by statement text: added holds exactly the statements *)
(* present only in B, removed exactly those present only in A, changed     *)
(* exactly the statements present in both whose sets of evidence hashes    *)
(* differ, each changed entry carrying A's hash set, B's hash set and      *)
(* confidence(B) - confidence(A); a statement in both with equal hash sets *)
(* is in none of the three lists.                                          *)
(***************************************************************************)
SectionClaims(p, s) == IF s \in DOMAIN p.verified THEN p.verified[s] ELSE <<>>

Statements(cs) == {cs[i].statement : i \in DOMAIN cs}

\* the claim a statement is the key of: the last one of the list with it
ClaimKeyed(cs, st) ==
    cs[CHOOSE i \in DOMAIN cs : /\ cs[i].statement = st
                                /\ \A j \in DOMAIN cs : cs[j].statement = st => j <= i]

\* the non-empty snippet hashes of the evidence of a claim
HashSet(c) == {c.evidence[i].snippet_hash : i \in DOMAIN c.evidence} \ {0}

SeqSet(q) == {q[i] : i \in DOMAIN q}

C20_DiffAddedRemovedChanged ==
    pc = "diffed" =>
        /\ DOMAIN diff.verified_sections = DOMAIN pack.verified \cup DOMAIN pack_b.verified
        /\ \A s \in DOMAIN diff.verified_sections :
               LET a == SectionClaims(pack, s)
                   b == SectionClaims(pack_b, s)
                   d == diff.verified_sections[s]
                   differ == {st \in Statements(a) \cap Statements(b) :
                                 HashSet(ClaimKeyed(a, st)) # HashSet(ClaimKeyed(b, st))}
               IN /\ Statements(d.added) = Statements(b) \ Statements(a)
                  /\ Len(d.added) = Cardinality(Statements(b) \ Statements(a))
                  /\ \A i \in DOMAIN d.added : d.added[i] = ClaimKeyed(b, d.added[i].statement)
                  /\ Statements(d.removed) = Statements(a) \ Statements(b)
                  /\ Len(d.removed) = Cardinality(Statements(a) \ Statements(b))
                  /\ \A i \in DOMAIN d.removed : d.removed[i] = ClaimKeyed(a, d.removed[i].statement)
                  /\ Statements(d.changed) = differ
                  /\ Len(d.changed) = Cardinality(differ)
                  /\ \A i \in DOMAIN d.changed :
                         LET ca == ClaimKeyed(a, d.changed[i].statement)
                             cb == ClaimKeyed(b, d.changed[i].statement)
                         IN /\ SeqSet(d.changed[i].old_hashes) = HashSet(ca)
                            /\ SeqSet(d.changed[i].new_hashes) = HashSet(cb)
                            /\ d.changed[i].confidence_delta
                                   = 100 * (cb.confidence - ca.confidence)

C20_Witness ==
    /\ pc = "diffed"
    /\ \E s \in DOMAIN pack.verified \cap DOMAIN pack_b.verified :
           /\ Len(pack.verified[s]) = 2
           /\ pack.verified[s][1].statement = pack.verified[s][2].statement
           /\ HashSet(pack.verified[s][1]) # HashSet(pack.verified[s][2])
           /\ HashSet(pack.verified[s][1]) = HashSet(ClaimKeyed(pack_b.verified[s], "Claim A"))
           /\ diff.verified_sections[s].added = <<>>
           /\ diff.verified_sections[s].removed = <<>>
           /\ Len(diff.verified_sections[s].changed) = 1
           /\ diff.verified_sections[s].changed[1].confidence_delta = -3000
           /\ diff.verified_sections[s].changed[1].old_hashes
                  # diff.verified_sections[s].changed[1].new_hashes

(***************************************************************************)
(* C21.  The unknown-category diff holds exactly one status-change entry   *)
(* for each category whose status differs between A and B, giving the old  *)
(* and the new status, and no entry for a category whose status is the     *)
(* same in both; when only tls_termination moves from UNKNOWN to VERIFIED  *)
(* the result is that single entry.                                        *)
(***************************************************************************)
\* the categories a pack has an entry for
CategoriesOf(p) == {p.unknowns[i].category : i \in DOMAIN p.unknowns}

\* the status a pack records for a category it has an entry for
StatusIn(p, c) == (CHOOSE u \in SeqSet(p.unknowns) : u.category = c).status

C21_UnknownDiffOneEntryPerMovedCategory ==
    pc = "diffed" =>
        LET changes == diff.unknowns.status_changes
        IN /\ \A i, j \in DOMAIN changes : i # j => changes[i].category # changes[j].category
           /\ \A i \in DOMAIN changes :
                  changes[i].category \in CategoriesOf(pack) \cup CategoriesOf(pack_b)
           /\ \A c \in CategoriesOf(pack) \cap CategoriesOf(pack_b) :
                  IF StatusIn(pack, c) = StatusIn(pack_b, c)
                  THEN \A i \in DOMAIN changes : changes[i].category # c
                  ELSE \E i \in DOMAIN changes :
                           changes[i] = [category |-> c, old_status |-> StatusIn(pack, c),
                                         new_status |-> StatusIn(pack_b, c)]

C21_Witness ==
    /\ pc = "diffed"
    /\ CategoriesOf(pack) = {"tls_termination", "encryption_at_rest"}
    /\ CategoriesOf(pack_b) = {"tls_termination", "encryption_at_rest"}
    /\ StatusIn(pack, "encryption_at_rest") = "VERIFIED"
    /\ StatusIn(pack_b, "encryption_at_rest") = "VERIFIED"
    /\ diff.unknowns.status_changes
           = << [category |-> "tls_termination", old_status |-> "UNKNOWN",
                 new_status |-> "VERIFIED"] >>

(***************************************************************************)
(* C22.  For two packs produced by build_evidence_pack the visibility-     *)
(* score diff reports old score = A's claim-visibility score, new score =  *)
(* B's claim-visibility score, delta = new - old, and the direction given  *)
(* by the sign of the delta.                                               *)
(***************************************************************************)
\* a pack as build_evidence_pack leaves it: its metrics are those of _build_metrics
AsBuilt(p) ==
    /\ "metrics" \in DOMAIN p
    /\ DOMAIN p.metrics = {"dci_v1_claim_visibility", "dci_v2_structural_visibility",
                           "rci_reporting_completeness"}

C22_VisibilityDiffOfBuiltPacks ==
    (pc = "diffed" /\ AsBuilt(pack) /\ AsBuilt(pack_b)) =>
        LET old == pack.metrics.dci_v1_claim_visibility.score
            new == pack_b.metrics.dci_v1_claim_visibility.score
        IN /\ diff.dci_delta.old_score = old
           /\ diff.dci_delta.new_score = new
           /\ diff.dci_delta.delta = new - old
           /\ diff.dci_delta.direction = IF new > old THEN "improved"
                                         ELSE IF new < old THEN "declined" ELSE "unchanged"

(***************************************************************************)
(* C29.  diff_packs loses no claim: in every section the number of added   *)
(* entries equals the number of claims of B's section whose statement does *)
(* not occur in A's section, and the number of removed entries the number  *)
(* of claims of A's section whose statement does not occur in B's, also    *)
(* when several claims of a section share one statement.                   *)
(***************************************************************************)
C29_DiffLosesNoClaim ==
    pc = "diffed" =>
        \A s \in DOMAIN diff.verified_sections :
            LET a == SectionClaims(pack, s)
                b == SectionClaims(pack_b, s)
            IN /\ Len(diff.verified_sections[s].added)
                      = Cardinality({i \in DOMAIN b : b[i].statement \notin Statements(a)})
               /\ Len(diff.verified_sections[s].removed)
                      = Cardinality({i \in DOMAIN a : a[i].statement \notin Statements(b)})

(***************************************************************************)
(* C30.  diff_packs is antisymmetric: diff_packs(B, A) is diff_packs(A, B) *)
(* with added and removed exchanged in every section, the old and new hash *)
(* sets of each changed entry exchanged and its confidence delta negated,  *)
(* old and new status of each unknown status change exchanged, added and   *)
(* removed hashes exchanged with the same unchanged count, and the         *)
(* visibility delta negated with improved and declined exchanged.          *)
(***************************************************************************)
Exchanged(d) ==
    [verified_sections |->
         [s \in DOMAIN d.verified_sections |->
             [added |-> d.verified_sections[s].removed,
              removed |-> d.verified_sections[s].added,
              changed |->
                  [i \in DOMAIN d.verified_sections[s].changed |->
                      [statement |-> d.verified_sections[s].changed[i].statement,
                       old_hashes |-> d.verified_sections[s].changed[i].new_hashes,
                       new_hashes |-> d.verified_sections[s].changed[i].old_hashes,
                       confidence_delta |->
                           0 - d.verified_sections[s].changed[i].confidence_delta]]]],
     status_changes |->
         [i \in DOMAIN d.unknowns.status_changes |->
             [category |-> d.unknowns.status_changes[i].category,
              old_status |-> d.unknowns.status_changes[i].new_status,
              new_status |-> d.unknowns.status_changes[i].old_status]],
     snippet_hashes |-> [added |-> d.snippet_hashes.removed,
                         removed |-> d.snippet_hashes.added,
                         unchanged |-> d.snippet_hashes.unchanged],
     delta |-> 0 - d.dci_delta.delta,
     direction |-> CASE d.dci_delta.direction = "improved" -> "declined"
                     [] d.dci_delta.direction = "declined" -> "improved"
                     [] OTHER -> d.dci_delta.direction]

\* the parts of a diff the exchange is stated for
Compared(d) ==
    [verified_sections |->
         [s \in DOMAIN d.verified_sections |->
             [added |-> d.verified_sections[s].added,
              removed |-> d.verified_sections[s].removed,
              changed |-> d.verified_sections[s].changed]],
     status_changes |-> d.unknowns.status_changes,
     snippet_hashes |-> d.snippet_hashes,
     delta |-> d.dci_delta.delta,
     direction |-> d.dci_delta.direction]

C30_DiffIsAntisymmetric ==
    pc = "diffed" => Compared(diff_packs(pack_b, pack)) = Exchanged(diff)

C30_Witness ==
    /\ pc = "diffed"
    /\ \E s \in DOMAIN diff.verified_sections : diff.verified_sections[s].added # <<>>
    /\ \E s \in DOMAIN diff.verified_sections :
           /\ diff.verified_sections[s].changed # <<>>
           /\ diff.verified_sections[s].changed[1].confidence_delta = -3000
    /\ diff.unknowns.status_changes # <<>>
    /\ diff.snippet_hashes.added # <<>>
    /\ diff.snippet_hashes.unchanged = 1
    /\ diff.dci_delta.delta > 0
    /\ diff.dci_delta.direction = "improved"

(***************************************************************************)
(* C23.  compute_known_unknowns returns exactly one entry per category of  *)
(* the fixed category list, in list order, each with status UNKNOWN and an *)
(* empty evidence list; a file whose name matches an upgrade-rule pattern, *)
(* and any content of the claims, changes at most the notes and never the  *)
(* status.                                                                 *)
(***************************************************************************)
C23_KnownUnknownsAllUnknown ==
    pc = "unknowns_done" =>
        /\ Len(known_unknowns) = Len(Categories)
        /\ \A k \in DOMAIN known_unknowns :
               /\ known_unknowns[k].category = Categories[k]
               /\ known_unknowns[k].status = "UNKNOWN"
               /\ known_unknowns[k].evidence = <<>>
               /\ [known_unknowns[k] EXCEPT !.notes = <<>>]
                      = compute_known_unknowns(EmptyHowto, <<>>, [mode |-> "", scanned |-> 0], <<>>)[k]

C23_Witness ==
    /\ pc = "unknowns_done"
    /\ claims # <<>>
    /\ file_index = << <<"infra", "/", "main", ".tf">>, <<"Dockerfile">> >>
    /\ known_unknowns[4].category = "deployment_topology"
    /\ known_unknowns[4].notes = << <<"Dockerfile">>, <<"infra", "/", "main", ".tf">> >>
    /\ known_unknowns[4].status = "UNKNOWN"
    /\ known_unknowns[1].notes = << <<"infra", "/", "main", ".tf">> >>
    /\ known_unknowns[7].notes = << <<"infra", "/", "main", ".tf">> >>

(***************************************************************************)
(* C24.  In every pack built by build_evidence_pack, each known-unknown    *)
(* entry with status VERIFIED carries at least one evidence anchor of the  *)
(* HASH tier, and summary.verified_categories and the unknowns-coverage    *)
(* component count only the entries that carry one.                        *)
(***************************************************************************)
HasHashAnchor(u) == \E e \in DOMAIN u.evidence : evidence_tier(u.evidence[e]) = "HASH"

Revalidated == pc \in {"claims_verified", "claims_built"}

C25_ConfidenceCappedWithoutHashAnchor ==
    Revalidated =>
        \A i \in DOMAIN claims : ~is_verified_claim(claims[i]) => claims[i].confidence <= 20

(***************************************************************************)
(* C26.  Every snippet anchor that the re-validation created               *)
(* (_parse_evidence_string) or marked hash-verified stores the hash of its *)
(* whole cited line range line_start..line_end, trimmed line by line, so   *)
(* _verify_single_evidence returns true on it.                             *)
(***************************************************************************)
C26_HashRoundTrip ==
    Revalidated =>
        \A i \in DOMAIN claims : \A e \in DOMAIN claims[i].evidence :
            LET ev == claims[i].evidence[e]
                snippet == read_lines_from_repo(ev.path, ev.line_start, ev.line_end)
            IN ev.kind # "file_exists" /\ ev.snippet_hash_verified # "False" =>
                   /\ snippet[1]
                   /\ Sha12(snippet[2]) = ev.snippet_hash
                   /\ verify_single_evidence(ev)

(***************************************************************************)
(* C27.  Every item that build_evidence_pack places in a                   *)
(* verified_structural bucket (dependencies, routes, schemas, enforcement) *)
(* carries an anchor that is hash-verified (snippet_hash_verified is true) *)
(* and is not a generated artifact.                                        *)
(***************************************************************************)
C27_StructuralItemsAreHashVerified ==
    pc = "built" =>
        \A b \in {"dependencies", "routes", "schemas", "enforcement"} :
            \A i \in DOMAIN pack.verified_structural[b] :
                LET ev == pack.verified_structural[b][i].evidence[1]
                IN /\ ev.snippet_hash_verified = "True"
                   /\ ~is_generated_artifact(ev.path)

(***************************************************************************)
(* C28.  For a pack whose unknowns come from compute_known_unknowns, plain *)
(* mode lists at most 5 categories, each with status UNKNOWN and none      *)
(* twice, and shows for each listed category the closure hint of its       *)
(* entry: the registry's resolve_with text.                                *)
(***************************************************************************)
FromRegistry(u) == "resolve_with" \in DOMAIN u

C28_PlainShowsRegistryClosureHints ==
    (/\ pc = "report"
     /\ report.mode = "plain"
     /\ \A i \in DOMAIN pack.unknowns : FromRegistry(pack.unknowns[i])) =>
        /\ Len(report.unknowns) <= 5
        /\ \A k \in DOMAIN report.unknowns :
               /\ \E i \in DOMAIN pack.unknowns :
                      /\ pack.unknowns[i].category = report.unknowns[k].cat
                      /\ pack.unknowns[i].status = "UNKNOWN"
                      /\ report.unknowns[k].evidence_needed = pack.unknowns[i].resolve_with
               /\ \A j \in DOMAIN report.unknowns :
                      report.unknowns[j].cat = report.unknowns[k].cat => j = k

====
